---- MODULE Spec2Model ----
(***************************************************************************)
(* Model of the mgsearch scrapers (src/scrapers): the Snitch and Tasva     *)
(* search scrapers (search -> extract_products -> scrape_query -> main ->  *)
(* save_to_csv) and the pure routines they are built from.                 *)
(*                                                                         *)
(* Python values are tagged records.  A str is a sequence of one-character *)
(* strings, so that lower(), strip(), ', '.join and json.dumps/json.loads  *)
(* are computed character by character.  A dict is a sequence of           *)
(* <<key, value>> pairs in insertion order with distinct keys.             *)
(***************************************************************************)
EXTENDS Integers, Sequences, FiniteSets, TLC

VARIABLES
    site,          \* which scraper runs: "snitch" or "tasva" ("none" in the pure specifications)
    source,        \* the simulated remote source (mode and its parameters)
    limit,         \* scrape_query's limit argument
    pc,            \* position of main: "loop", "end", "saved"; "pure" in the pure specifications
    qi,            \* main: index of the query being processed (for idx, query in enumerate(search_queries, 1))
    inQuery,       \* TRUE while scrape_query's while-loop for query qi is running
    page,          \* snitch scrape_query: page
    offset,        \* tasva scrape_query: offset
    all_products,  \* scrape_query: all_products (the query's accumulated records)
    total_count,   \* scrape_query: total_count (None or a number)
    total_pages,   \* snitch scrape_query: total_pages
    collected,     \* main: all_products (records of all finished queries)
    reqs,          \* history: page numbers / offsets requested so far in the current (or last) query
    lastReply,     \* history: the HTTP reply the last loop iteration received
    lastResult,    \* history: how the last scrape_query ended and what it returned
    expected,      \* history: flattened mapping elements of the located arrays of the current query
    csv,           \* the rows save_to_csv wrote (None: no file written)
    arg,           \* pure specifications: the input value drawn in Init
    out            \* pure specifications: the result of applying the function to arg

mvars == <<site, source, limit, pc, qi, inQuery, page, offset, all_products,
           total_count, total_pages, collected, reqs, lastReply, lastResult,
           expected, csv>>
pvars == <<arg, out>>
vars == <<mvars, pvars>>

----------------------------------------------------------------------------
(* Sequences *)

Range(s) == {s[i] : i \in 1..Len(s)}

RECURSIVE Flat(_)
\* concatenation of a sequence of sequences
Flat(ss) == IF ss = <<>> THEN <<>> ELSE Head(ss) \o Flat(Tail(ss))

RECURSIVE JoinWith(_, _)
\* sep.join(parts), parts a sequence of strings
JoinWith(sep, parts) ==
    IF parts = <<>> THEN <<>>
    ELSE IF Len(parts) = 1 THEN parts[1]
    ELSE parts[1] \o sep \o JoinWith(sep, Tail(parts))

SeqsUpTo(S, n) == UNION {[1..k -> S] : k \in 0..n}

----------------------------------------------------------------------------
(* Python values *)

None == [t |-> "null"]
Bool(b) == [t |-> "bool", b |-> b]
Num(n) == [t |-> "num", n |-> n]
Str(s) == [t |-> "str", s |-> s]
List(items) == [t |-> "list", items |-> items]
Dict(kv) == [t |-> "dict", kv |-> kv]

IsNone(v) == v.t = "null"
IsBool(v) == v.t = "bool"
IsNum(v) == v.t = "num"
IsStr(v) == v.t = "str"
IsList(v) == v.t = "list"
IsDict(v) == v.t = "dict"

EmptyDict == Dict(<<>>)
EmptyStr == Str(<<>>)

Keys(d) == {d.kv[i][1] : i \in 1..Len(d.kv)}
KeySeq(d) == [i \in 1..Len(d.kv) |-> d.kv[i][1]]
HasKey(d, k) == \E i \in 1..Len(d.kv) : d.kv[i][1] = k
\* d[k] for a key that is present
Get(d, k) == d.kv[CHOOSE i \in 1..Len(d.kv) : d.kv[i][1] = k][2]
\* d.get(k, default)
GetOr(d, k, default) == IF HasKey(d, k) THEN Get(d, k) ELSE default
\* d[k] = v: overwrite in place, or append a new key
Put(d, k, v) ==
    IF HasKey(d, k)
    THEN Dict([i \in 1..Len(d.kv) |-> IF d.kv[i][1] = k THEN <<k, v>> ELSE d.kv[i]])
    ELSE Dict(Append(d.kv, <<k, v>>))

\* Python truthiness: bool(v)
Truthy(v) ==
    CASE IsNone(v) -> FALSE
      [] IsBool(v) -> v.b
      [] IsNum(v)  -> v.n # 0
      [] IsStr(v)  -> v.s # <<>>
      [] IsList(v) -> v.items # <<>>
      [] IsDict(v) -> v.kv # <<>>

\* Python ==, for the scalar values that occur as set members: True == 1, False == 0
PyEq(a, b) ==
    CASE IsBool(a) /\ IsNum(b) -> b.n = (IF a.b THEN 1 ELSE 0)
      [] IsNum(a) /\ IsBool(b) -> a.n = (IF b.b THEN 1 ELSE 0)
      [] OTHER -> a = b

----------------------------------------------------------------------------
(* Characters and str methods *)

Digits == <<"0", "1", "2", "3", "4", "5", "6", "7", "8", "9">>
IsDigit(c) == \E i \in 1..10 : Digits[i] = c
DigitVal(c) == (CHOOSE i \in 1..10 : Digits[i] = c) - 1

RECURSIVE NatChars(_)
NatChars(n) == IF n < 10 THEN <<Digits[n + 1]>> ELSE NatChars(n \div 10) \o <<Digits[(n % 10) + 1]>>
\* str(n) for an int
IntChars(n) == IF n < 0 THEN <<"-">> \o NatChars(0 - n) ELSE NatChars(n)

RECURSIVE CharsNat(_)
CharsNat(cs) == IF cs = <<>> THEN 0 ELSE CharsNat(SubSeq(cs, 1, Len(cs) - 1)) * 10 + DigitVal(cs[Len(cs)])

Upper == <<"A", "B", "C", "D", "E", "F", "G", "H", "I", "J", "K", "L", "M",
           "N", "O", "P", "Q", "R", "S", "T", "U", "V", "W", "X", "Y", "Z">>
Lower == <<"a", "b", "c", "d", "e", "f", "g", "h", "i", "j", "k", "l", "m",
           "n", "o", "p", "q", "r", "s", "t", "u", "v", "w", "x", "y", "z">>
LowerChar(c) == IF \E i \in 1..26 : Upper[i] = c
                THEN Lower[CHOOSE i \in 1..26 : Upper[i] = c] ELSE c
\* s.lower()
StrLower(s) == [i \in 1..Len(s) |-> LowerChar(s[i])]

IsSpace(c) == c \in {" ", "\t", "\n", "\r"}
RECURSIVE LStrip(_)
LStrip(s) == IF s # <<>> /\ IsSpace(s[1]) THEN LStrip(Tail(s)) ELSE s
RECURSIVE RStrip(_)
RStrip(s) == IF s # <<>> /\ IsSpace(s[Len(s)]) THEN RStrip(SubSeq(s, 1, Len(s) - 1)) ELSE s
\* s.strip()
StrStrip(s) == RStrip(LStrip(s))

\* str(v) for a scalar v
PyStr(v) ==
    CASE IsNone(v) -> <<"N", "o", "n", "e">>
      [] IsBool(v) -> IF v.b THEN <<"T", "r", "u", "e">> ELSE <<"F", "a", "l", "s", "e">>
      [] IsNum(v)  -> IntChars(v.n)
      [] IsStr(v)  -> v.s

----------------------------------------------------------------------------
(* json.dumps(value, ensure_ascii=False) and json.loads *)

RECURSIVE EscapeChars(_)
EscapeChars(s) ==
    IF s = <<>> THEN <<>>
    ELSE (CASE s[1] = "\"" -> <<"\\", "\"">>
            [] s[1] = "\\" -> <<"\\", "\\">>
            [] OTHER -> <<s[1]>>) \o EscapeChars(Tail(s))

JsonString(s) == <<"\"">> \o EscapeChars(s) \o <<"\"">>

RECURSIVE JsonDumps(_)
JsonDumps(v) ==
    CASE IsNone(v) -> <<"n", "u", "l", "l">>
      [] IsBool(v) -> IF v.b THEN <<"t", "r", "u", "e">> ELSE <<"f", "a", "l", "s", "e">>
      [] IsNum(v)  -> IntChars(v.n)
      [] IsStr(v)  -> JsonString(v.s)
      [] IsList(v) ->
            <<"[">> \o JoinWith(<<",", " ">>, [i \in 1..Len(v.items) |-> JsonDumps(v.items[i])]) \o <<"]">>
      [] IsDict(v) ->
            <<"{">> \o JoinWith(<<",", " ">>,
                        [i \in 1..Len(v.kv) |->
                            JsonString(v.kv[i][1]) \o <<":", " ">> \o JsonDumps(v.kv[i][2])])
                  \o <<"}">>

\* A parse result: the value read and the position after it, or a failure.
ParseFail == [ok |-> FALSE]
Parsed(v, i) == [ok |-> TRUE, v |-> v, i |-> i]

RECURSIVE SkipWs(_, _)
SkipWs(txt, i) == IF i <= Len(txt) /\ IsSpace(txt[i]) THEN SkipWs(txt, i + 1) ELSE i

HasWord(txt, i, w) == i + Len(w) - 1 <= Len(txt) /\ SubSeq(txt, i, i + Len(w) - 1) = w

RECURSIVE ScanString(_, _, _)
\* the characters of a string literal from position i (after the opening quote)
ScanString(txt, i, acc) ==
    IF i > Len(txt) THEN ParseFail
    ELSE IF txt[i] = "\"" THEN Parsed(acc, i + 1)
    ELSE IF txt[i] = "\\"
         THEN IF i + 1 <= Len(txt) /\ txt[i + 1] \in {"\"", "\\"}
              THEN ScanString(txt, i + 2, Append(acc, txt[i + 1]))
              ELSE ParseFail
    ELSE ScanString(txt, i + 1, Append(acc, txt[i]))

RECURSIVE ScanDigits(_, _)
ScanDigits(txt, i) == IF i <= Len(txt) /\ IsDigit(txt[i]) THEN ScanDigits(txt, i + 1) ELSE i

RECURSIVE ParseValue(_, _)
RECURSIVE ParseItems(_, _, _)
RECURSIVE ParseMembers(_, _, _)

\* the elements of an array after '[' or after a ',': value (',' value)* ']'
ParseItems(txt, i, acc) ==
    LET r == ParseValue(txt, i) IN
    IF ~r.ok THEN ParseFail
    ELSE LET j == SkipWs(txt, r.i) IN
         IF j > Len(txt) THEN ParseFail
         ELSE IF txt[j] = "]" THEN Parsed(List(Append(acc, r.v)), j + 1)
         ELSE IF txt[j] = "," THEN ParseItems(txt, j + 1, Append(acc, r.v))
         ELSE ParseFail

\* the members of an object: string ':' value (',' string ':' value)* '}'
ParseMembers(txt, i, acc) ==
    LET j == SkipWs(txt, i) IN
    IF j > Len(txt) \/ txt[j] # "\"" THEN ParseFail
    ELSE LET k == ScanString(txt, j + 1, <<>>) IN
         IF ~k.ok THEN ParseFail
         ELSE LET c == SkipWs(txt, k.i) IN
              IF c > Len(txt) \/ txt[c] # ":" THEN ParseFail
              ELSE LET r == ParseValue(txt, c + 1) IN
                   IF ~r.ok THEN ParseFail
                   ELSE LET e == SkipWs(txt, r.i)
                            d == Put(Dict(acc), k.v, r.v).kv
                        IN  IF e > Len(txt) THEN ParseFail
                            ELSE IF txt[e] = "}" THEN Parsed(Dict(d), e + 1)
                            ELSE IF txt[e] = "," THEN ParseMembers(txt, e + 1, d)
                            ELSE ParseFail

ParseValue(txt, i0) ==
    LET i == SkipWs(txt, i0) IN
    IF i > Len(txt) THEN ParseFail
    ELSE CASE HasWord(txt, i, <<"n", "u", "l", "l">>) -> Parsed(None, i + 4)
           [] HasWord(txt, i, <<"t", "r", "u", "e">>) -> Parsed(Bool(TRUE), i + 4)
           [] HasWord(txt, i, <<"f", "a", "l", "s", "e">>) -> Parsed(Bool(FALSE), i + 5)
           [] txt[i] = "\"" ->
                LET s == ScanString(txt, i + 1, <<>>) IN
                IF s.ok THEN Parsed(Str(s.v), s.i) ELSE ParseFail
           [] IsDigit(txt[i]) ->
                LET j == ScanDigits(txt, i) IN Parsed(Num(CharsNat(SubSeq(txt, i, j - 1))), j)
           [] txt[i] = "-" /\ i + 1 <= Len(txt) /\ IsDigit(txt[i + 1]) ->
                LET j == ScanDigits(txt, i + 1) IN
                Parsed(Num(0 - CharsNat(SubSeq(txt, i + 1, j - 1))), j)
           [] txt[i] = "[" ->
                LET j == SkipWs(txt, i + 1) IN
                IF j <= Len(txt) /\ txt[j] = "]" THEN Parsed(List(<<>>), j + 1)
                ELSE ParseItems(txt, i + 1, <<>>)
           [] txt[i] = "{" ->
                LET j == SkipWs(txt, i + 1) IN
                IF j <= Len(txt) /\ txt[j] = "}" THEN Parsed(Dict(<<>>), j + 1)
                ELSE ParseMembers(txt, i + 1, <<>>)
           [] OTHER -> ParseFail

\* json.loads(text): the value, or a failure (JSONDecodeError)
JsonLoads(txt) ==
    LET r == ParseValue(txt, 1) IN
    IF r.ok /\ SkipWs(txt, r.i) > Len(txt) THEN r ELSE ParseFail

----------------------------------------------------------------------------
(* The key names and literals the scrapers use, as str values *)

Key ==
       ("data" :> <<"d", "a", "t", "a">>)
    @@ ("products" :> <<"p", "r", "o", "d", "u", "c", "t", "s">>)
    @@ ("results" :> <<"r", "e", "s", "u", "l", "t", "s">>)
    @@ ("items" :> <<"i", "t", "e", "m", "s">>)
    @@ ("total_count" :> <<"t", "o", "t", "a", "l", "_", "c", "o", "u", "n", "t">>)
    @@ ("hasMore" :> <<"h", "a", "s", "M", "o", "r", "e">>)
    @@ ("nextPage" :> <<"n", "e", "x", "t", "P", "a", "g", "e">>)
    @@ ("totalPages" :> <<"t", "o", "t", "a", "l", "P", "a", "g", "e", "s">>)
    @@ ("title" :> <<"t", "i", "t", "l", "e">>)
    @@ ("name" :> <<"n", "a", "m", "e">>)
    @@ ("price" :> <<"p", "r", "i", "c", "e">>)
    @@ ("id" :> <<"i", "d">>)
    @@ ("product_id" :> <<"p", "r", "o", "d", "u", "c", "t", "_", "i", "d">>)
    @@ ("image" :> <<"i", "m", "a", "g", "e">>)
    @@ ("url" :> <<"u", "r", "l">>)
    @@ ("productUrl" :> <<"p", "r", "o", "d", "u", "c", "t", "U", "r", "l">>)
    @@ ("selling_price" :> <<"s", "e", "l", "l", "i", "n", "g", "_", "p", "r", "i", "c", "e">>)
    @@ ("product_name" :> <<"p", "r", "o", "d", "u", "c", "t", "_", "n", "a", "m", "e">>)
    @@ ("productName" :> <<"p", "r", "o", "d", "u", "c", "t", "N", "a", "m", "e">>)
    @@ ("children" :> <<"c", "h", "i", "l", "d", "r", "e", "n">>)
    @@ ("className" :> <<"c", "l", "a", "s", "s", "N", "a", "m", "e">>)
    @@ ("routeParams" :> <<"r", "o", "u", "t", "e", "P", "a", "r", "a", "m", "s">>)
    @@ ("__PAGE__" :> <<"_", "_", "P", "A", "G", "E", "_", "_">>)
    @@ ("needHamBurger" :> <<"n", "e", "e", "d", "H", "a", "m", "B", "u", "r", "g", "e", "r">>)
    @@ ("needSearchBar" :> <<"n", "e", "e", "d", "S", "e", "a", "r", "c", "h", "B", "a", "r">>)
    @@ ("needDesktopIcons" :> <<"n", "e", "e", "d", "D", "e", "s", "k", "t", "o", "p", "I", "c", "o", "n", "s">>)
    @@ ("displayAppNudge" :> <<"d", "i", "s", "p", "l", "a", "y", "A", "p", "p", "N", "u", "d", "g", "e">>)
    @@ ("key" :> <<"k", "e", "y">>)
    @@ ("value" :> <<"v", "a", "l", "u", "e">>)
    @@ ("success" :> <<"s", "u", "c", "c", "e", "s", "s">>)
    @@ ("hits" :> <<"h", "i", "t", "s">>)
    @@ ("total" :> <<"t", "o", "t", "a", "l">>)
    @@ ("_source" :> <<"_", "s", "o", "u", "r", "c", "e">>)
    @@ ("ProductID" :> <<"P", "r", "o", "d", "u", "c", "t", "I", "D">>)
    @@ ("StyleCode" :> <<"S", "t", "y", "l", "e", "C", "o", "d", "e">>)
    @@ ("Name" :> <<"N", "a", "m", "e">>)
    @@ ("Price" :> <<"P", "r", "i", "c", "e">>)
    @@ ("Quantity" :> <<"Q", "u", "a", "n", "t", "i", "t", "y">>)
    @@ ("msg" :> <<"m", "s", "g">>)
    @@ ("INVALID_REQUEST" :> <<"I", "N", "V", "A", "L", "I", "D", "_", "R", "E", "Q", "U", "E", "S", "T">>)
    @@ ("meta" :> <<"m", "e", "t", "a">>)
    @@ ("tags" :> <<"t", "a", "g", "s">>)
    @@ ("_id" :> <<"_", "i", "d">>)
    @@ ("_scraped_at" :> <<"_", "s", "c", "r", "a", "p", "e", "d", "_", "a", "t">>)
    @@ ("handle" :> <<"h", "a", "n", "d", "l", "e">>)
    @@ ("original_price" :> <<"o", "r", "i", "g", "i", "n", "a", "l", "_", "p", "r", "i", "c", "e">>)
    @@ ("discount" :> <<"d", "i", "s", "c", "o", "u", "n", "t">>)
    @@ ("brand" :> <<"b", "r", "a", "n", "d">>)
    @@ ("category" :> <<"c", "a", "t", "e", "g", "o", "r", "y">>)
    @@ ("description" :> <<"d", "e", "s", "c", "r", "i", "p", "t", "i", "o", "n">>)
    @@ ("in_stock" :> <<"i", "n", "_", "s", "t", "o", "c", "k">>)
    @@ ("rating" :> <<"r", "a", "t", "i", "n", "g">>)
    @@ ("reviews" :> <<"r", "e", "v", "i", "e", "w", "s">>)
    @@ ("sku" :> <<"s", "k", "u">>)
    @@ ("color" :> <<"c", "o", "l", "o", "r">>)
    @@ ("size" :> <<"s", "i", "z", "e">>)
    @@ ("material" :> <<"m", "a", "t", "e", "r", "i", "a", "l">>)
    @@ ("ShortDescription" :> <<"S", "h", "o", "r", "t", "D", "e", "s", "c", "r", "i", "p", "t", "i", "o", "n">>)
    @@ ("LinkRewrite" :> <<"L", "i", "n", "k", "R", "e", "w", "r", "i", "t", "e">>)
    @@ ("SellingPrice" :> <<"S", "e", "l", "l", "i", "n", "g", "P", "r", "i", "c", "e">>)
    @@ ("Color" :> <<"C", "o", "l", "o", "r">>)
    @@ ("ProductURL" :> <<"P", "r", "o", "d", "u", "c", "t", "U", "R", "L">>)
    @@ ("Brand" :> <<"B", "r", "a", "n", "d">>)
    @@ ("Fabric" :> <<"F", "a", "b", "r", "i", "c">>)
    @@ ("Fit" :> <<"F", "i", "t">>)
    @@ ("Category" :> <<"C", "a", "t", "e", "g", "o", "r", "y">>)
    @@ ("DefaultCategoryName" :> <<"D", "e", "f", "a", "u", "l", "t", "C", "a", "t", "e", "g", "o", "r", "y", "N", "a", "m", "e">>)
    @@ ("Gender" :> <<"G", "e", "n", "d", "e", "r">>)
    @@ ("ShopID" :> <<"S", "h", "o", "p", "I", "D">>)
    @@ ("Images" :> <<"I", "m", "a", "g", "e", "s">>)
    @@ ("Sizes" :> <<"S", "i", "z", "e", "s">>)
    @@ ("Discount_Amount" :> <<"D", "i", "s", "c", "o", "u", "n", "t", "_", "A", "m", "o", "u", "n", "t">>)
    @@ ("PublishedDate" :> <<"P", "u", "b", "l", "i", "s", "h", "e", "d", "D", "a", "t", "e">>)
    @@ ("Active" :> <<"A", "c", "t", "i", "v", "e">>)
    @@ ("IsReturnable" :> <<"I", "s", "R", "e", "t", "u", "r", "n", "a", "b", "l", "e">>)
    @@ ("Media" :> <<"M", "e", "d", "i", "a">>)
    @@ ("Swatch" :> <<"S", "w", "a", "t", "c", "h">>)
    @@ ("SwatchExtension" :> <<"S", "w", "a", "t", "c", "h", "E", "x", "t", "e", "n", "s", "i", "o", "n">>)
    @@ ("Images_JSON" :> <<"I", "m", "a", "g", "e", "s", "_", "J", "S", "O", "N">>)
    @@ ("ImageURLs" :> <<"I", "m", "a", "g", "e", "U", "R", "L", "s">>)
    @@ ("ImageURLs_JSON" :> <<"I", "m", "a", "g", "e", "U", "R", "L", "s", "_", "J", "S", "O", "N">>)
    @@ ("PrimaryImageURL" :> <<"P", "r", "i", "m", "a", "r", "y", "I", "m", "a", "g", "e", "U", "R", "L">>)
    @@ ("SwatchImageURL" :> <<"S", "w", "a", "t", "c", "h", "I", "m", "a", "g", "e", "U", "R", "L">>)

----------------------------------------------------------------------------
(* Results of calls that may raise *)

\* the call raised (AttributeError: a value without .items() / .get())
Raised == [raised |-> TRUE]
\* the call returned the list ps
Ok(ps) == [raised |-> FALSE, products |-> ps]

----------------------------------------------------------------------------
(* SnitchScraper: _extract_product_info *)

IsScalarOrNone(v) == IsStr(v) \/ IsNum(v) \/ IsBool(v) \/ IsNone(v)

\* ', '.join(str(v) if v is not None else '' for v in value)
JoinScalars(items) ==
    JoinWith(<<",", " ">>, [i \in 1..Len(items) |-> IF IsNone(items[i]) THEN <<>> ELSE PyStr(items[i])])

\* str(value) in place of json.dumps(value): the text carries single quotes
Requote(txt) == [i \in 1..Len(txt) |-> IF txt[i] = "\"" THEN "'" ELSE txt[i]]
SnitchFieldValueRepr(value) ==
    CASE IsNone(value) -> None
      [] IsBool(value) -> value
      [] IsNum(value)  -> value
      [] IsStr(value)  -> value
      [] IsDict(value) -> Str(Requote(JsonDumps(value)))
      [] IsList(value) ->
            IF Len(value.items) = 0 THEN Str(<<"[", "]">>)
            ELSE IF \A i \in 1..Len(value.items) : IsScalarOrNone(value.items[i])
                 THEN Str(JoinScalars(value.items))
                 ELSE Str(Requote(JsonDumps(value)))

\* a conversion that serializes every sequence, joining none
SnitchFieldValueDumpLists(value) ==
    CASE IsNone(value) -> None
      [] IsBool(value) -> value
      [] IsNum(value)  -> value
      [] IsStr(value)  -> value
      [] IsDict(value) -> Str(JsonDumps(value))
      [] IsList(value) -> Str(JsonDumps(value))

\* the value stored under product[key] for one field value
SnitchFieldValue(value) ==
    CASE IsNone(value) -> None
      [] IsBool(value) -> value
      [] IsNum(value)  -> value
      [] IsStr(value)  -> value
      [] IsDict(value) -> Str(JsonDumps(value))
      [] IsList(value) ->
            IF Len(value.items) = 0 THEN Str(<<"[", "]">>)
            ELSE IF \A i \in 1..Len(value.items) : IsScalarOrNone(value.items[i])
                 THEN Str(JoinScalars(value.items))
                 ELSE Str(JsonDumps(value))

\* a flattener that passes over the fields whose value is None
SnitchExtractInfoSkipNone(item) ==
    Dict(SelectSeq([i \in 1..Len(item.kv) |-> <<item.kv[i][1], SnitchFieldValue(item.kv[i][2])>>],
                   LAMBDA e : ~IsNone(e[2])))

\* _extract_product_info(item) for a dict item (item.items() raises for anything else)
SnitchExtractInfo(item) ==
    Dict([i \in 1..Len(item.kv) |-> <<item.kv[i][1], SnitchFieldValue(item.kv[i][2])>>])

----------------------------------------------------------------------------
(* SnitchScraper: _find_products_recursive, _deep_search_for_products,     *)
(* _looks_like_product, extract_products                                   *)

RecursiveDepthLimit == 10
DeepDepthLimit == 15

ProductIndicators == {Key["title"], Key["name"], Key["price"], Key["id"], Key["product_id"], Key["image"], Key["url"],
                      Key["productUrl"], Key["selling_price"]}
SkipKeys == {Key["children"], Key["className"], Key["routeParams"], Key["__PAGE__"], Key["needHamBurger"],
             Key["needSearchBar"], Key["needDesktopIcons"], Key["displayAppNudge"], Key["key"], Key["value"]}
DeepIndicators == ProductIndicators \cup {Key["product_name"], Key["productName"]}
DeepSkipKeys == {Key["children"], Key["className"], Key["routeParams"]}
KeyFields == {Key["title"], Key["name"], Key["id"], Key["product_id"], Key["price"], Key["selling_price"]}

\* a non-empty list whose first element is a dict with a product indicator key
LooksLikeProductList(v) ==
    /\ IsList(v)
    /\ Len(v.items) > 0
    /\ IsDict(v.items[1])
    /\ Keys(v.items[1]) \cap ProductIndicators # {}

RECURSIVE FindProductsRecursive(_, _)
RECURSIVE FindInEntries(_, _, _)

\* the for-loop over data.items() of _find_products_recursive, from entry i on
FindInEntries(kv, i, depth) ==
    IF i > Len(kv) THEN <<>>
    ELSE IF kv[i][1] \in SkipKeys THEN FindInEntries(kv, i + 1, depth)
    ELSE IF LooksLikeProductList(kv[i][2]) THEN kv[i][2].items
    ELSE LET result == FindProductsRecursive(kv[i][2], depth + 1) IN
         IF result # <<>> THEN result ELSE FindInEntries(kv, i + 1, depth)

\* a search without the depth limit
FindProductsRecursiveNoLimit(data, depth) ==
    IF IsList(data) THEN (IF LooksLikeProductList(data) THEN data.items ELSE <<>>)
    ELSE IF IsDict(data) THEN FindInEntries(data.kv, 1, depth)
    ELSE <<>>

\* _find_products_recursive(data, depth): the list found (its elements), or []
FindProductsRecursive(data, depth) ==
    IF depth > RecursiveDepthLimit THEN <<>>
    ELSE IF IsList(data) THEN (IF LooksLikeProductList(data) THEN data.items ELSE <<>>)
    ELSE IF IsDict(data) THEN FindInEntries(data.kv, 1, depth)
    ELSE <<>>

RECURSIVE DeepSearchForProducts(_, _)
\* _deep_search_for_products(data, depth): the dicts appended to found, in order
DeepSearchForProducts(data, depth) ==
    IF depth > DeepDepthLimit THEN <<>>
    ELSE IF IsDict(data)
         THEN (IF Keys(data) \cap DeepIndicators # {}
                  /\ (~HasKey(data, Key["children"]) \/ ~HasKey(data, Key["className"]))
               THEN <<data>> ELSE <<>>)
              \o Flat([i \in 1..Len(data.kv) |->
                        IF data.kv[i][1] \in DeepSkipKeys THEN <<>>
                        ELSE DeepSearchForProducts(data.kv[i][2], depth + 1)])
    ELSE IF IsList(data)
         THEN Flat([i \in 1..Len(data.items) |-> DeepSearchForProducts(data.items[i], depth + 1)])
    ELSE <<>>

\* _looks_like_product(product)
LooksLikeProduct(product) ==
    /\ Truthy(product)
    /\ Keys(product) \cap KeyFields # {}
    /\ ~HasKey(product, Key["children"]) /\ ~HasKey(product, Key["className"])

\* an if/elif chain that looks at 'products' before 'data'
SnitchProductsDataProductsFirst(data) ==
    IF HasKey(data, Key["products"]) /\ IsList(Get(data, Key["products"])) THEN Get(data, Key["products"])
    ELSE IF HasKey(data, Key["data"]) /\ IsList(Get(data, Key["data"])) THEN Get(data, Key["data"])
    ELSE IF HasKey(data, Key["results"]) /\ IsList(Get(data, Key["results"])) THEN Get(data, Key["results"])
    ELSE IF HasKey(data, Key["items"]) /\ IsList(Get(data, Key["items"])) THEN Get(data, Key["items"])
    ELSE [t |-> "list", items |-> <<>>]

\* products_data as chosen by the if/elif chain of extract_products (data a dict);
\* a list found by _find_products_recursive is returned as a list value
SnitchProductsData(data) ==
    IF HasKey(data, Key["data"]) /\ IsList(Get(data, Key["data"])) THEN Get(data, Key["data"])
    ELSE IF HasKey(data, Key["products"]) /\ IsList(Get(data, Key["products"])) THEN Get(data, Key["products"])
    ELSE IF HasKey(data, Key["results"]) /\ IsList(Get(data, Key["results"])) THEN Get(data, Key["results"])
    ELSE IF HasKey(data, Key["items"]) /\ IsList(Get(data, Key["items"])) THEN Get(data, Key["items"])
    ELSE IF HasKey(data, Key["data"]) /\ IsDict(Get(data, Key["data"]))
         THEN LET nested_data == Get(data, Key["data"]) IN
              IF HasKey(nested_data, Key["products"]) THEN Get(nested_data, Key["products"])
              ELSE IF HasKey(nested_data, Key["results"]) THEN Get(nested_data, Key["results"])
              ELSE List(FindProductsRecursive(nested_data, 0))
    ELSE List(FindProductsRecursive(data, 0))

\* for item in items: product = _extract_product_info(item); if product: products.append(product)
SnitchExtractList(items) ==
    IF \E i \in 1..Len(items) : ~IsDict(items[i]) THEN Raised
    ELSE Ok(SelectSeq([i \in 1..Len(items) |-> SnitchExtractInfo(items[i])], Truthy))

\* the first stage of extract_products: the records taken from products_data
SnitchStandardExtraction(data) ==
    IF ~IsDict(data) THEN Ok(<<>>)
    ELSE LET products_data == SnitchProductsData(data) IN
         IF IsList(products_data) THEN SnitchExtractList(products_data.items)
         ELSE IF IsDict(products_data)
              THEN SnitchExtractList(
                       Flat([i \in 1..Len(products_data.kv) |->
                               IF IsList(products_data.kv[i][2])
                               THEN products_data.kv[i][2].items ELSE <<>>]))
         ELSE Ok(<<>>)

\* the deep-search stage of extract_products, run when no product was extracted
SnitchDeepExtraction(data) ==
    LET all_objects == DeepSearchForProducts(data, 0) IN
    Ok(SelectSeq([i \in 1..Len(all_objects) |-> SnitchExtractInfo(all_objects[i])], LooksLikeProduct))

\* extract_products(data)
SnitchExtractProducts(data) ==
    LET std == SnitchStandardExtraction(data) IN
    IF std.raised THEN Raised
    ELSE IF std.products # <<>> THEN std
    ELSE SnitchDeepExtraction(data)

----------------------------------------------------------------------------
(* TasvaScraper: _extract_product_info (the identity and basic fields; the        *)
(* Features, Discount, Media, Sizes and URL fields take no part in          *)
(* pagination or deduplication and are left out),                          *)
(* extract_products                                                          *)

\* _extract_product_info(item) for a dict item (item.get raises for anything else)
TasvaExtractInfo(item) ==
    Dict(<< <<Key["ProductID"], GetOr(item, Key["ProductID"], EmptyStr)>>,
            <<Key["StyleCode"], GetOr(item, Key["StyleCode"], EmptyStr)>>,
            <<Key["Name"], GetOr(item, Key["Name"], EmptyStr)>>,
            <<Key["Price"], GetOr(item, Key["Price"], EmptyStr)>>,
            <<Key["Quantity"], GetOr(item, Key["Quantity"], Num(0))>> >>)

\* the dict handed to _extract_product_info for one hit
TasvaHitData(hit) == IF HasKey(hit, Key["_source"]) THEN Get(hit, Key["_source"]) ELSE hit

\* the hits array of a response: data['results']['products']['hits'], or [] when the
\* response is not a successful one of that shape
TasvaHits(data) ==
    IF ~(IsDict(data) /\ Truthy(GetOr(data, Key["success"], None))) THEN <<>>
    ELSE LET results == GetOr(data, Key["results"], EmptyDict) IN
         IF ~IsDict(results) THEN <<>>
         ELSE LET products_obj == GetOr(results, Key["products"], EmptyDict) IN
              IF ~IsDict(products_obj) THEN <<>>
              ELSE LET hits == GetOr(products_obj, Key["hits"], List(<<>>)) IN
                   IF IsList(hits) THEN hits.items ELSE <<>>

\* extract_products(data): hits that are not dicts are passed over; a dict hit whose
\* _source is not a dict makes _extract_product_info raise
TasvaExtractProducts(data) ==
    LET hits == SelectSeq(TasvaHits(data), IsDict) IN
    IF \E i \in 1..Len(hits) : ~IsDict(TasvaHitData(hits[i])) THEN Raised
    ELSE Ok(SelectSeq([i \in 1..Len(hits) |-> TasvaExtractInfo(TasvaHitData(hits[i]))], Truthy))

----------------------------------------------------------------------------
(* Deduplication: SnitchScraper.remove_duplicates_by_title and               *)
(* TasvaScraper.remove_duplicates_by_id                                      *)

\* normalisation without lower(): str(title).strip()
NormalizedTitleNoLower(product) ==
    IF Truthy(GetOr(product, Key["title"], EmptyStr))
    THEN StrStrip(PyStr(GetOr(product, Key["title"], EmptyStr))) ELSE <<>>

\* str(title).lower().strip() for a truthy title, '' otherwise
NormalizedTitle(product) ==
    LET title == GetOr(product, Key["title"], EmptyStr) IN
    IF Truthy(title) THEN StrStrip(StrLower(PyStr(title))) ELSE <<>>

\* set.add(x): the set with x added, as an enumerated set
SetAdd(S, x) == {y \in S \cup {x} : TRUE}

\* the state of the for-loop: the seen set and the unique_products list
DedupState(seen, unique_products) == [seen |-> seen, unique_products |-> unique_products]

\* a loop body that forgets a title when it drops a duplicate of it
TitleLoopBodyForgets(st, product, normalized_title) ==
    IF normalized_title # <<>> /\ normalized_title \in st.seen
    THEN DedupState(st.seen \ {normalized_title}, st.unique_products)
    ELSE DedupState(IF normalized_title # <<>> THEN SetAdd(st.seen, normalized_title) ELSE st.seen,
                    Append(st.unique_products, product))

\* the body of the for-loop of remove_duplicates_by_title for one product
TitleLoopBody(st, product, normalized_title) ==
    IF normalized_title # <<>> /\ normalized_title \in st.seen THEN st
    ELSE DedupState(IF normalized_title # <<>> THEN SetAdd(st.seen, normalized_title) ELSE st.seen,
                    Append(st.unique_products, product))

RECURSIVE DedupByTitle(_, _, _, _)
\* the for-loop of remove_duplicates_by_title over products[lo..hi], in order, from
\* the loop state st (the range is halved so that long lists nest only log-deep)
DedupByTitle(products, lo, hi, st) ==
    IF lo > hi THEN st
    ELSE IF lo = hi THEN TitleLoopBody(st, products[lo], NormalizedTitle(products[lo]))
    ELSE LET half == DedupByTitle(products, lo, (lo + hi) \div 2, st) IN
         \* the first half has run, and its loop state is a value, before the second starts
         IF half = st THEN DedupByTitle(products, ((lo + hi) \div 2) + 1, hi, st)
         ELSE DedupByTitle(products, ((lo + hi) \div 2) + 1, hi, half)

\* remove_duplicates_by_title(products)
RemoveDuplicatesByTitle(products) ==
    DedupByTitle(products, 1, Len(products), DedupState({}, <<>>)).unique_products

\* product.get('ProductID', '')
ProductIdOf(product) == GetOr(product, Key["ProductID"], EmptyStr)

\* a loop body that never records the ids it has seen
IdLoopBodyNoAdd(st, product, product_id) ==
    IF Truthy(product_id) /\ \E s \in st.seen : PyEq(product_id, s) THEN st
    ELSE DedupState(st.seen, Append(st.unique_products, product))

\* the body of the for-loop of remove_duplicates_by_id for one product; seen_ids is a
\* Python set, whose membership test is Python equality
IdLoopBody(st, product, product_id) ==
    IF Truthy(product_id) /\ \E s \in st.seen : PyEq(product_id, s) THEN st
    ELSE DedupState(IF Truthy(product_id) THEN SetAdd(st.seen, product_id) ELSE st.seen,
                    Append(st.unique_products, product))

RECURSIVE DedupById(_, _, _, _)
\* the for-loop of remove_duplicates_by_id over products[lo..hi], in order
DedupById(products, lo, hi, st) ==
    IF lo > hi THEN st
    ELSE IF lo = hi THEN IdLoopBody(st, products[lo], ProductIdOf(products[lo]))
    ELSE LET half == DedupById(products, lo, (lo + hi) \div 2, st) IN
         IF half = st THEN DedupById(products, ((lo + hi) \div 2) + 1, hi, st)
         ELSE DedupById(products, ((lo + hi) \div 2) + 1, hi, half)

\* remove_duplicates_by_id(products)
RemoveDuplicatesById(products) ==
    DedupById(products, 1, Len(products), DedupState({}, <<>>)).unique_products

----------------------------------------------------------------------------
(* HTTP replies and search()                                               *)
(* A reply is what session.get / session.post produces: an exception       *)
(* (timeout, connection failure) or a response with a status code and a   *)
(* body text.                                                              *)

Timeout == [kind |-> "timeout"]
ConnectionError == [kind |-> "conn"]
Response(status, body) == [kind |-> "http", status |-> status, body |-> body]

IsException(reply) == reply.kind # "http"
\* a status check that lets the 4xx statuses pass
RaisesForStatusServerOnly(reply) == reply.status >= 500 /\ reply.status < 600

\* response.raise_for_status() raises HTTPError for a 4xx or 5xx status
RaisesForStatus(reply) == reply.status >= 400 /\ reply.status < 600

\* after raise_for_status passed: response.json(), {} on a JSONDecodeError
DecodeOrEmpty(reply) ==
    LET r == JsonLoads(reply.body) IN IF r.ok THEN r.v ELSE EmptyDict

\* SnitchScraper.search: the value returned for the reply to its one GET
SnitchSearch(reply) ==
    IF IsException(reply) THEN EmptyDict
    ELSE IF RaisesForStatus(reply) THEN EmptyDict
    ELSE DecodeOrEmpty(reply)

InvalidRequestMsg == List(<<Str(Key["INVALID_REQUEST"])>>)

\* a retry rule that fires on every 400 response
TasvaRetriesAny400(first) == ~IsException(first) /\ first.status = 400

\* TasvaScraper.search: whether the first response triggers the retry POST
TasvaRetries(first) ==
    /\ ~IsException(first)
    /\ first.status = 400
    /\ LET e == JsonLoads(first.body) IN
       e.ok /\ IsDict(e.v) /\ GetOr(e.v, Key["msg"], None) = InvalidRequestMsg

\* TasvaScraper.search: the response that raise_for_status and json() are applied to.
\* An exception raised by the retry POST is swallowed (except: pass) and the first
\* response stays.
TasvaFinalResponse(first, second) ==
    IF TasvaRetries(first) /\ ~IsException(second) THEN second ELSE first

\* TasvaScraper.search: the value returned, given the replies to the first POST and
\* to the retry POST (read only when the retry happens)
TasvaSearch(first, second) ==
    IF IsException(first) THEN EmptyDict
    ELSE LET response == TasvaFinalResponse(first, second) IN
         IF RaisesForStatus(response) THEN EmptyDict
         ELSE DecodeOrEmpty(response)

\* TasvaScraper.search: known_hashes, the queries/offsets with a captured hash
KnownHashes == {<<"kurta", 0>>}

\* TasvaScraper.search: payload["hash"], the captured hash or _generate_hash(payload)
\* (an md5 digest, kept as the tuple of the payload fields it is computed from)
TasvaHash(query, off, lim) ==
    IF <<query, off>> \in KnownHashes THEN [known_for |-> <<query, off>>]
    ELSE [md5_of |-> <<query, off, lim, (off \div lim) + 1>>]

\* TasvaScraper.search: the JSON body of the first POST (the fields that vary with the
\* call, and the two the retry changes)
TasvaPayload(query, off, lim) ==
    [searchWord |-> query, offset |-> off, limit |-> lim, pageNo |-> (off \div lim) + 1,
     hash |-> TasvaHash(query, off, lim), validateHash |-> TRUE]

\* TasvaScraper.search: payload_no_hash (copy, pop('hash'), validateHash = False)
TasvaPayloadNoHash(payload) ==
    [k \in DOMAIN payload \ {"hash"} |-> IF k = "validateHash" THEN FALSE ELSE payload[k]]

\* TasvaScraper.search: the JSON bodies of the POSTs one call sends, in order
TasvaPostsSent(query, off, lim, first) ==
    IF TasvaRetries(first)
    THEN <<TasvaPayload(query, off, lim), TasvaPayloadNoHash(TasvaPayload(query, off, lim))>>
    ELSE <<TasvaPayload(query, off, lim)>>

\* the number of POSTs one search call sends
TasvaPosts(first) == IF TasvaRetries(first) THEN 2 ELSE 1

----------------------------------------------------------------------------
(* scrape_query: one iteration of the while-loop                           *)

SafetyPageLimit == 1000
SafetyOffsetLimit == 100000

IsNumeric(v) == IsNum(v) \/ IsBool(v)
\* the int a number or a bool stands for in arithmetic and comparisons
IntOf(v) == IF IsBool(v) THEN (IF v.b THEN 1 ELSE 0) ELSE v.n

\* the local variables of scrape_query
Locals(pg, off, all, tc, tp) ==
    [page |-> pg, offset |-> off, all_products |-> all, total_count |-> tc, total_pages |-> tp]
\* lines 464-467 (snitch), 716-718 (tasva)
FreshLocals == Locals(1, 0, <<>>, None, None)

\* how an iteration ends: "continue" (next iteration), "empty" (no products: break),
\* "complete" (not has_more: break), "safety" (safety limit: break), "raise"
StepResult(outcome, loc) == [outcome |-> outcome, loc |-> loc]

\* response_data['data'] when response_data is a dict holding it (None otherwise)
SnitchDataObj(response_data) ==
    IF IsDict(response_data) /\ HasKey(response_data, Key["data"])
    THEN Get(response_data, Key["data"]) ELSE None

\* snitch lines 500-503: total_count after the data block
SnitchTotalCount(data_obj, old) ==
    IF IsDict(data_obj) /\ HasKey(data_obj, Key["total_count"])
    THEN Get(data_obj, Key["total_count"]) ELSE old

\* snitch lines 505-506: total_pages after the data block
SnitchTotalPages(data_obj, tc, old, lim) ==
    IF IsDict(data_obj) /\ HasKey(data_obj, Key["total_count"]) /\ Truthy(tc) /\ lim # 0 /\ IsNumeric(tc)
    THEN Num((IntOf(tc) + lim - 1) \div lim) ELSE old

\* total_count + limit, len(all_products) < total_count: a TypeError unless a number
SnitchCountTypeError(data_obj, tc) == IsDict(data_obj) /\ ~IsNone(tc) /\ ~IsNumeric(tc)

\* snitch lines 497-525: has_more (a Python value) after the data block
SnitchHasMoreInData(data_obj, tc, nProducts, nAll, lim) ==
    IF ~IsDict(data_obj) THEN Bool(FALSE)
    ELSE IF ~IsNone(tc) THEN Bool(IsNumeric(tc) /\ nAll < IntOf(tc))
    ELSE IF HasKey(data_obj, Key["hasMore"]) THEN Get(data_obj, Key["hasMore"])
    ELSE IF HasKey(data_obj, Key["nextPage"]) /\ Truthy(Get(data_obj, Key["nextPage"])) THEN Bool(TRUE)
    ELSE Bool(nProducts = lim)

\* snitch lines 527-539: the top-level pagination fields, read when has_more is falsy
SnitchTopLevel(response_data, has_more, tc, tp, nProducts, pg, lim) ==
    IF Truthy(has_more) \/ ~IsDict(response_data)
    THEN [total_pages |-> tp, has_more |-> Truthy(has_more), typeError |-> FALSE]
    ELSE IF HasKey(response_data, Key["hasMore"]) /\ Truthy(Get(response_data, Key["hasMore"]))
    THEN [total_pages |-> tp, has_more |-> TRUE, typeError |-> FALSE]
    ELSE IF HasKey(response_data, Key["totalPages"])
    THEN [total_pages |-> Get(response_data, Key["totalPages"]),
          has_more |-> IsNumeric(Get(response_data, Key["totalPages"]))
                       /\ pg < IntOf(Get(response_data, Key["totalPages"])),
          typeError |-> ~IsNumeric(Get(response_data, Key["totalPages"]))]
    ELSE IF HasKey(response_data, Key["nextPage"]) /\ Truthy(Get(response_data, Key["nextPage"]))
    THEN [total_pages |-> tp, has_more |-> TRUE, typeError |-> FALSE]
    ELSE [total_pages |-> tp, has_more |-> nProducts = lim /\ IsNone(tc), typeError |-> FALSE]

\* the end of an iteration without the safety limit
SnitchAdvanceNoLimit(loc, all, tc, top, countTypeError) ==
    IF countTypeError \/ top.typeError
    THEN StepResult("raise", Locals(loc.page, loc.offset, all, tc, top.total_pages))
    ELSE IF ~top.has_more
    THEN StepResult("complete", Locals(loc.page, loc.offset, all, tc, top.total_pages))
    ELSE StepResult("continue", Locals(loc.page + 1, loc.offset, all, tc, top.total_pages))

\* snitch lines 541-552: break when not has_more, else page += 1 and the safety limit
SnitchAdvance(loc, all, tc, top, countTypeError) ==
    IF countTypeError \/ top.typeError
    THEN StepResult("raise", Locals(loc.page, loc.offset, all, tc, top.total_pages))
    ELSE IF ~top.has_more
    THEN StepResult("complete", Locals(loc.page, loc.offset, all, tc, top.total_pages))
    ELSE IF loc.page + 1 > SafetyPageLimit
    THEN StepResult("safety", Locals(loc.page + 1, loc.offset, all, tc, top.total_pages))
    ELSE StepResult("continue", Locals(loc.page + 1, loc.offset, all, tc, top.total_pages))

\* snitch lines 491-552, for a non-empty page: products of the page, all_products
\* after extend, data_obj and the total_count in force
SnitchPaginate(response_data, products, all, data_obj, tc, loc, lim) ==
    SnitchAdvance(loc, all, tc,
                  SnitchTopLevel(response_data,
                                 SnitchHasMoreInData(data_obj, tc, Len(products), Len(all), lim),
                                 tc, SnitchTotalPages(data_obj, tc, loc.total_pages, lim),
                                 Len(products), loc.page, lim),
                  SnitchCountTypeError(data_obj, tc))

\* snitch lines 485-491: what the iteration does with the result of extract_products
SnitchAfterExtract(response_data, ex, loc, lim) ==
    IF ex.raised THEN StepResult("raise", loc)
    ELSE IF ex.products = <<>> THEN StepResult("empty", loc)
    ELSE SnitchPaginate(response_data, ex.products, loc.all_products \o ex.products,
                        SnitchDataObj(response_data),
                        SnitchTotalCount(SnitchDataObj(response_data), loc.total_count),
                        loc, lim)

\* snitch scrape_query, lines 482-552: one iteration on the value search returned
SnitchStep(response_data, loc, lim) ==
    SnitchAfterExtract(response_data, SnitchExtractProducts(response_data), loc, lim)

\* results['products'] of a successful response when it is a dict (None otherwise)
TasvaProductsObj(response_data) ==
    IF IsDict(response_data) /\ Truthy(GetOr(response_data, Key["success"], None))
       /\ IsDict(GetOr(response_data, Key["results"], EmptyDict))
       /\ IsDict(GetOr(GetOr(response_data, Key["results"], EmptyDict), Key["products"], EmptyDict))
    THEN GetOr(GetOr(response_data, Key["results"], EmptyDict), Key["products"], EmptyDict)
    ELSE None

\* tasva lines 753-754: total_count
TasvaTotalCount(products_obj, old) ==
    IF IsDict(products_obj) /\ HasKey(products_obj, Key["total"]) THEN Get(products_obj, Key["total"]) ELSE old

\* has_more with len(all_products) <= total_count
TasvaHasMoreInclusive(products_obj, tc, nProducts, nAll, lim) ==
    IF ~IsDict(products_obj) THEN FALSE
    ELSE IF ~IsNone(tc) THEN IsNumeric(tc) /\ nAll <= IntOf(tc)
    ELSE nProducts = lim

\* has_more without the full-page assumption
TasvaHasMoreNoHeuristic(products_obj, tc, nProducts, nAll, lim) ==
    IF ~IsDict(products_obj) THEN FALSE
    ELSE IF ~IsNone(tc) THEN IsNumeric(tc) /\ nAll < IntOf(tc)
    ELSE FALSE

\* tasva lines 746-767: has_more
TasvaHasMore(products_obj, tc, nProducts, nAll, lim) ==
    IF ~IsDict(products_obj) THEN FALSE
    ELSE IF ~IsNone(tc) THEN IsNumeric(tc) /\ nAll < IntOf(tc)
    ELSE nProducts = lim

\* an advance that moves the offset by one record instead of one page
TasvaAdvanceByOne(loc, all, tc, has_more, countTypeError, lim) ==
    IF countTypeError THEN StepResult("raise", Locals(loc.page, loc.offset, all, tc, loc.total_pages))
    ELSE IF ~has_more
    THEN StepResult("complete", Locals(loc.page, loc.offset, all, tc, loc.total_pages))
    ELSE IF loc.offset + 1 > SafetyOffsetLimit
    THEN StepResult("safety", Locals(loc.page, loc.offset + 1, all, tc, loc.total_pages))
    ELSE StepResult("continue", Locals(loc.page, loc.offset + 1, all, tc, loc.total_pages))

\* tasva lines 769-780: break when not has_more, else offset += limit and the safety limit
TasvaAdvance(loc, all, tc, has_more, countTypeError, lim) ==
    IF countTypeError THEN StepResult("raise", Locals(loc.page, loc.offset, all, tc, loc.total_pages))
    ELSE IF ~has_more
    THEN StepResult("complete", Locals(loc.page, loc.offset, all, tc, loc.total_pages))
    ELSE IF loc.offset + lim > SafetyOffsetLimit
    THEN StepResult("safety", Locals(loc.page, loc.offset + lim, all, tc, loc.total_pages))
    ELSE StepResult("continue", Locals(loc.page, loc.offset + lim, all, tc, loc.total_pages))

\* tasva lines 740-780, for a non-empty page
TasvaPaginate(products, all, products_obj, tc, loc, lim) ==
    TasvaAdvance(loc, all, tc,
                 TasvaHasMore(products_obj, tc, Len(products), Len(all), lim),
                 IsDict(products_obj) /\ ~IsNone(tc) /\ ~IsNumeric(tc), lim)

\* an iteration that removes the duplicates from all_products after every page
TasvaAfterExtractDedup(response_data, ex, loc, lim) ==
    IF ex.raised THEN StepResult("raise", loc)
    ELSE IF ex.products = <<>> THEN StepResult("empty", loc)
    ELSE TasvaPaginate(ex.products, RemoveDuplicatesById(loc.all_products \o ex.products),
                       TasvaProductsObj(response_data),
                       TasvaTotalCount(TasvaProductsObj(response_data), loc.total_count),
                       loc, lim)

\* an iteration that goes on to the pagination fields whatever the page held
TasvaAfterExtractNoBreak(response_data, ex, loc, lim) ==
    IF ex.raised THEN StepResult("raise", loc)
    ELSE TasvaPaginate(ex.products, loc.all_products \o ex.products,
                       TasvaProductsObj(response_data),
                       TasvaTotalCount(TasvaProductsObj(response_data), loc.total_count),
                       loc, lim)

\* tasva lines 734-740: what the iteration does with the result of extract_products
TasvaAfterExtract(response_data, ex, loc, lim) ==
    IF ex.raised THEN StepResult("raise", loc)
    ELSE IF ex.products = <<>> THEN StepResult("empty", loc)
    ELSE TasvaPaginate(ex.products, loc.all_products \o ex.products,
                       TasvaProductsObj(response_data),
                       TasvaTotalCount(TasvaProductsObj(response_data), loc.total_count),
                       loc, lim)

\* tasva scrape_query, lines 731-780: one iteration on the value search returned
TasvaStep(response_data, loc, lim) ==
    TasvaAfterExtract(response_data, TasvaExtractProducts(response_data), loc, lim)

----------------------------------------------------------------------------
(* The simulated source: the pages it serves and the replies it may give   *)

NumQueries == 2      \* len(search_queries)
MaxTotal == 7        \* largest total count T of a fixed-total source
MaxLimit == 3        \* largest limit (page size L) of a fixed-total source
MaxFetch == 2        \* pages an unconstrained source serves per query before it runs dry
FreeLimit == 2       \* limit used against the unconstrained source
SnitchMainLimit == 1000   \* snitch main: limit = 1000
TasvaMainLimit == 100     \* tasva main: limit = 100

\* a total count no run can collect: makes "collected < total" hold on every page
HugeTotal == 10 * SafetyOffsetLimit

SnitchRecord(i) == Dict(<< <<Key["id"], Num(i)>>, <<Key["title"], Str(<<"p">> \o IntChars(i))>> >>)
TasvaSource(i) == Dict(<< <<Key["ProductID"], Num(i)>>, <<Key["Name"], Str(<<"p">> \o IntChars(i))>> >>)
TasvaHit(i) == Dict(<< <<Key["_source"], TasvaSource(i)>> >>)

\* the record scrape_query collects for record i of the source
Collected(s, i) == IF s = "snitch" THEN SnitchExtractInfo(SnitchRecord(i))
                   ELSE TasvaExtractInfo(TasvaSource(i))

\* records lo..hi as a sequence (empty when hi < lo)
SnitchRecords(lo, hi) == [k \in 1..(IF hi < lo THEN 0 ELSE hi - lo + 1) |-> SnitchRecord(lo + k - 1)]
TasvaHits_(lo, hi) == [k \in 1..(IF hi < lo THEN 0 ELSE hi - lo + 1) |-> TasvaHit(lo + k - 1)]

\* {"data": {"products": recs, <extraData>}, <extraTop>}
SnitchPage(recs, extraData, extraTop) ==
    Dict(<< <<Key["data"], Dict(<< <<Key["products"], List(recs)>> >> \o extraData)>> >> \o extraTop)
\* {"success": true, "results": {"products": {<extra>, "hits": hits}}}
TasvaPage(hits, extra) ==
    Dict(<< <<Key["success"], Bool(TRUE)>>,
            <<Key["results"], Dict(<< <<Key["products"], Dict(extra \o << <<Key["hits"], List(hits)>> >>)>> >>)>> >>)

Min(a, b) == IF a < b THEN a ELSE b
CeilDiv(a, b) == (a + b - 1) \div b

Ok200(payload) == Response(200, JsonDumps(payload))
NoReply == [kind |-> "none"]
Snitch1(first) == [first |-> first, second |-> NoReply]
Tasva2(first, second) == [first |-> first, second |-> second]

\* a source with a fixed total T serving distinct records 1..T in pages of size lim
TotalReply(s, T, pg, off, lim) ==
    IF s = "snitch"
    THEN Snitch1(Ok200(SnitchPage(SnitchRecords((pg - 1) * lim + 1, Min(pg * lim, T)),
                                  << <<Key["total_count"], Num(T)>> >>, <<>>)))
    ELSE Tasva2(Ok200(TasvaPage(TasvaHits_(off + 1, Min(off + lim, T)),
                                << <<Key["total"], Num(T)>> >>)), NoReply)

SnitchMoreSignals == {"total", "dataHasMore", "dataNextPage", "topHasMore",
                      "topTotalPages", "topNextPage", "fullPage"}
TasvaMoreSignals == {"total"}

\* a source whose every page is non-empty and signals "more" by the signal sig
MoreReply(s, sig, pg, lim) ==
    IF s = "tasva"
    THEN Tasva2(Ok200(TasvaPage(TasvaHits_(1, 1), << <<Key["total"], Num(HugeTotal)>> >>)), NoReply)
    ELSE Snitch1(Ok200(
        CASE sig = "total" -> SnitchPage(SnitchRecords(1, 1), << <<Key["total_count"], Num(HugeTotal)>> >>, <<>>)
          [] sig = "dataHasMore" -> SnitchPage(SnitchRecords(1, 1), << <<Key["hasMore"], Bool(TRUE)>> >>, <<>>)
          [] sig = "dataNextPage" -> SnitchPage(SnitchRecords(1, 1), << <<Key["nextPage"], Num(pg + 1)>> >>, <<>>)
          [] sig = "topHasMore" -> SnitchPage(SnitchRecords(1, 1), <<>>, << <<Key["hasMore"], Bool(TRUE)>> >>)
          [] sig = "topTotalPages" -> SnitchPage(SnitchRecords(1, 1), <<>>, << <<Key["totalPages"], Num(HugeTotal)>> >>)
          [] sig = "topNextPage" -> SnitchPage(SnitchRecords(1, 1), <<>>, << <<Key["nextPage"], Num(pg + 1)>> >>)
          [] sig = "fullPage" -> SnitchPage(SnitchRecords(1, lim), <<>>, <<>>)))

Garbage == <<"<", "h", "t", "m", "l", ">">>
NotAMapping == Str(<<"x">>)

\* a page of lim records without pagination fields (a full page), and a page of one
FullPage(s, lim) == IF s = "snitch" THEN SnitchPage(SnitchRecords(1, lim), <<>>, <<>>)
                    ELSE TasvaPage(TasvaHits_(1, lim), <<>>)
ShortPage(s) == IF s = "snitch" THEN SnitchPage(SnitchRecords(1, 1), <<>>, <<>>)
                ELSE TasvaPage(TasvaHits_(1, 1), <<>>)
EmptyPage(s) == IF s = "snitch" THEN SnitchPage(<<>>, <<>>, <<>>) ELSE TasvaPage(<<>>, <<>>)
\* a page one of whose raw records is not a mapping
BrokenPage(s) ==
    IF s = "snitch" THEN SnitchPage(<<SnitchRecord(1), NotAMapping>>, <<>>, <<>>)
    ELSE TasvaPage(<<TasvaHit(1), Dict(<< <<Key["_source"], NotAMapping>> >>)>>, <<>>)

\* the first responses of the unconstrained source: pages, and every kind of failure
ErrorFirsts(s, lim) ==
    {Ok200(FullPage(s, lim)), Ok200(ShortPage(s)), Ok200(BrokenPage(s)),
     Response(300, JsonDumps(FullPage(s, lim))),
     Timeout, ConnectionError,
     Response(500, JsonDumps(FullPage(s, lim))), Response(404, JsonDumps(FullPage(s, lim))),
     Response(200, Garbage)}

InvalidRequest == Response(400, JsonDumps(Dict(<< <<Key["msg"], InvalidRequestMsg>> >>)))

\* the page {"success": true, "results": {"products": {"total": 2, "hits":
\* [{"_source": {"ProductID": "A1", "Name": "X"}}, {"_source": {"ProductID": "A1", "Name": "X-dup"}}]}}}
ScenarioHit(name) ==
    Dict(<< <<Key["_source"], Dict(<< <<Key["ProductID"], Str(<<"A", "1">>)>>,
                                      <<Key["Name"], Str(name)>> >>)>> >>)
ScenarioPage ==
    TasvaPage(<<ScenarioHit(<<"X">>), ScenarioHit(<<"X", "-", "d", "u", "p">>)>>,
              << <<Key["total"], Num(2)>> >>)

ErrorReplies(s, lim) ==
    IF s = "snitch" THEN {Snitch1(f) : f \in ErrorFirsts(s, lim)}
    ELSE {Tasva2(f, NoReply) : f \in ErrorFirsts(s, lim)
                                     \cup {Ok200(TasvaPage(<<TasvaHit(1), NotAMapping>>, <<>>)),
                                           Response(400, Garbage), Ok200(ScenarioPage)}}
         \cup {Tasva2(InvalidRequest, r) :
                 r \in {Ok200(ShortPage(s)), Response(500, Garbage), Timeout}}

MaxSignalFetch == 2  \* pages a source of mixed signals serves per query before its pages are empty

\* Snitch pages whose pagination fields disagree with each other or with the page
\* size: in data a total count that is reached (1) or out of reach, hasMore, nextPage;
\* at top level hasMore, totalPages, nextPage
SnitchSignalPages(pg, lim) ==
    LET one == SnitchRecords(1, 1)
        full == SnitchRecords(1, lim)
        reached == <<Key["total_count"], Num(1)>>
    IN  {SnitchPage(full, <<reached>>, <<>>),
         SnitchPage(full, <<reached>>, << <<Key["hasMore"], Bool(TRUE)>> >>),
         SnitchPage(one, <<reached, <<Key["hasMore"], Bool(TRUE)>> >>, <<>>),
         SnitchPage(one, <<reached>>, << <<Key["totalPages"], Num(HugeTotal)>> >>),
         SnitchPage(one, <<reached>>, << <<Key["nextPage"], Num(pg + 1)>> >>),
         SnitchPage(full, << <<Key["hasMore"], Bool(FALSE)>> >>, <<>>),
         SnitchPage(one, << <<Key["hasMore"], Bool(FALSE)>> >>, <<>>),
         SnitchPage(full, <<>>, <<>>),
         SnitchPage(one, <<>>, <<>>),
         SnitchPage(one, << <<Key["total_count"], Num(HugeTotal)>> >>, <<>>),
         SnitchPage(one, << <<Key["hasMore"], Bool(TRUE)>> >>, <<>>),
         SnitchPage(one, << <<Key["nextPage"], Num(pg + 1)>> >>, <<>>),
         SnitchPage(full, <<>>, << <<Key["hasMore"], Bool(FALSE)>> >>)}

\* pages without a record that say there is more
SnitchDryPages ==
    {SnitchPage(<<>>, << <<Key["total_count"], Num(HugeTotal)>> >>, << <<Key["hasMore"], Bool(TRUE)>> >>),
     SnitchPage(<<>>, << <<Key["hasMore"], Bool(TRUE)>> >>, <<>>)}
TasvaDryPages == {TasvaPage(<<>>, << <<Key["total"], Num(HugeTotal)>> >>)}

TasvaSignalPages(lim) ==
    {TasvaPage(TasvaHits_(1, 1), << <<Key["total"], Num(HugeTotal)>> >>),
     TasvaPage(TasvaHits_(1, 1), << <<Key["total"], Num(1)>> >>),
     TasvaPage(TasvaHits_(1, lim), <<>>),
     TasvaPage(TasvaHits_(1, 1), <<>>)}

\* a source of mixed signals: any of the pages above, then (or at once) a dry page
SignalReplies(s, pg, lim, fetched) ==
    IF s = "snitch"
    THEN {Snitch1(Ok200(p)) : p \in SnitchDryPages
                                   \cup (IF fetched >= MaxSignalFetch THEN {} ELSE SnitchSignalPages(pg, lim))}
    ELSE {Tasva2(Ok200(p), NoReply) : p \in TasvaDryPages
                                   \cup (IF fetched >= MaxSignalFetch THEN {} ELSE TasvaSignalPages(lim))}

\* what the source may answer to the next fetch
Replies ==
    LET fetched == IF inQuery THEN Len(reqs) ELSE 0 IN
    CASE source.mode = "total" -> {TotalReply(site, source.T, page, offset, limit)}
      [] source.mode = "more" -> {MoreReply(site, source.sig, page, limit)}
      [] source.mode = "signals" -> SignalReplies(site, page, limit, fetched)
      [] source.mode = "errors" ->
            IF fetched >= MaxFetch
            THEN {IF site = "snitch" THEN Snitch1(Ok200(EmptyPage(site)))
                  ELSE Tasva2(Ok200(EmptyPage(site)), NoReply)}
            ELSE ErrorReplies(site, limit)

----------------------------------------------------------------------------
(* main and scrape_query as a state machine                                *)

Sites == {"snitch", "tasva"}

NoResult == [outcome |-> "none"]
NoFile == [written |-> FALSE]
Idle == [t |-> "idle"]

\* scraper.search(query, ...) on the reply (for tasva: the replies) of the source
Search(reply) ==
    IF site = "snitch" THEN SnitchSearch(reply.first)
    ELSE TasvaSearch(reply.first, reply.second)

\* one iteration of scrape_query's while-loop
Step(response_data, loc) ==
    IF site = "snitch" THEN SnitchStep(response_data, loc, limit)
    ELSE TasvaStep(response_data, loc, limit)

\* a save_to_csv that writes every record it is given
RemoveDuplicatesNone(s, products) == products

\* remove_duplicates_by_title / remove_duplicates_by_id, as save_to_csv calls them
RemoveDuplicates(s, products) ==
    IF s = "snitch" THEN RemoveDuplicatesByTitle(products) ELSE RemoveDuplicatesById(products)

\* the records of a list of raw records when those that are not mappings are passed over
SnitchSkippingList(data, ex) ==
    IF ex.products # <<>> THEN ex.products ELSE SnitchDeepExtraction(data).products

\* what extract_products returned, [] when it raised
ProductsOrNone(ex) == IF ex.raised THEN <<>> ELSE ex.products

\* The records of a response when raw records that are not mappings are passed over
\* and every other record is extracted (history only: what `expected` accumulates).
SkippingExtract(response_data) ==
    IF site = "snitch"
    THEN IF IsDict(response_data) /\ IsList(SnitchProductsData(response_data))
         THEN SnitchSkippingList(response_data,
                  SnitchExtractList(SelectSeq(SnitchProductsData(response_data).items, IsDict)))
         ELSE ProductsOrNone(SnitchExtractProducts(response_data))
    ELSE ProductsOrNone(TasvaExtractProducts(
             TasvaPage(SelectSeq(SelectSeq(TasvaHits(response_data), IsDict),
                                 LAMBDA h : IsDict(TasvaHitData(h))), <<>>)))

\* the end of one iteration: st is its result, rq the requests of the query so far
FinishStep(reply, st, rq, skipping) ==
    /\ lastReply' = reply
    /\ reqs' = rq
    /\ expected' = (IF inQuery THEN expected ELSE <<>>) \o skipping
    /\ page' = IF st.outcome = "continue" THEN st.loc.page ELSE FreshLocals.page
    /\ offset' = IF st.outcome = "continue" THEN st.loc.offset ELSE FreshLocals.offset
    /\ all_products' = IF st.outcome = "continue" THEN st.loc.all_products
                       ELSE FreshLocals.all_products
    /\ total_count' = IF st.outcome = "continue" THEN st.loc.total_count
                      ELSE FreshLocals.total_count
    /\ total_pages' = IF st.outcome = "continue" THEN st.loc.total_pages
                      ELSE FreshLocals.total_pages
    /\ inQuery' = (st.outcome = "continue")
    /\ lastResult' = IF st.outcome = "continue" THEN lastResult
                     ELSE [outcome |-> st.outcome, query |-> qi, fetches |-> Len(rq),
                           products |-> IF st.outcome = "raise" THEN <<>>
                                        ELSE st.loc.all_products]
    /\ collected' = IF st.outcome \in {"continue", "raise"} THEN collected
                    ELSE collected \o st.loc.all_products
    /\ qi' = IF st.outcome = "continue" THEN qi ELSE qi + 1
    /\ pc' = IF st.outcome # "continue" /\ qi + 1 > NumQueries THEN "end" ELSE "loop"

\* the iteration on the value search returned
StepOn(reply, response_data) ==
    FinishStep(reply,
               Step(response_data, Locals(page, offset, all_products, total_count, total_pages)),
               Append(IF inQuery THEN reqs ELSE <<>>, IF site = "snitch" THEN page ELSE offset),
               SkippingExtract(response_data))

----------------------------------------------------------------------------
(* save_to_csv: the column order and the rows                               *)

\* the characters of field names in code point order
CharOrder == Digits \o Upper \o <<"_">> \o Lower
Ord(c) == CHOOSE i \in 1..Len(CharOrder) : CharOrder[i] = c

RECURSIVE StrLess(_, _)
\* a < b for two str
StrLess(a, b) ==
    IF b = <<>> THEN FALSE
    ELSE IF a = <<>> THEN TRUE
    ELSE IF a[1] = b[1] THEN StrLess(Tail(a), Tail(b))
    ELSE Ord(a[1]) < Ord(b[1])

RECURSIVE Sorted(_)
\* sorted(S) for a set of str
Sorted(S) ==
    IF S = {} THEN <<>>
    ELSE LET m == CHOOSE x \in S : \A y \in S : x = y \/ StrLess(x, y)
         IN  <<m>> \o Sorted(S \ {m})

\* save_to_csv: preferred_order
SnitchPreferredOrder ==
    <<Key["id"], Key["title"], Key["price"], Key["original_price"], Key["discount"],
      Key["brand"], Key["category"], Key["url"], Key["image"], Key["description"],
      Key["in_stock"], Key["rating"], Key["reviews"], Key["sku"], Key["color"],
      Key["size"], Key["material"]>>
TasvaPreferredOrder ==
    <<Key["ProductID"], Key["StyleCode"], Key["Name"], Key["ShortDescription"],
      Key["LinkRewrite"], Key["Price"], Key["SellingPrice"], Key["Color"], Key["Quantity"],
      Key["ProductURL"], Key["Brand"], Key["Fabric"], Key["Fit"], Key["Category"],
      Key["DefaultCategoryName"], Key["Gender"], Key["ShopID"], Key["Images"], Key["Sizes"],
      Key["Discount_Amount"], Key["PublishedDate"], Key["Active"], Key["IsReturnable"]>>
PreferredOrder(s) == IF s = "snitch" THEN SnitchPreferredOrder ELSE TasvaPreferredOrder

\* save_to_csv: all_keys
AllKeys(products) == UNION {Keys(products[i]) : i \in 1..Len(products)}

\* a column order that is sorted(all_keys) alone
OrderedFieldnamesSorted(s, products) == Sorted(AllKeys(products))

\* save_to_csv: ordered_fieldnames
OrderedFieldnames(s, products) ==
    SelectSeq(PreferredOrder(s), LAMBDA field : field \in AllKeys(products))
        \o Sorted(AllKeys(products) \ Range(PreferredOrder(s)))

\* save_to_csv: row[key] for one record
CsvCell(product, key) ==
    IF ~HasKey(product, key) THEN <<>>
    ELSE IF IsNone(Get(product, key)) THEN <<>>
    ELSE IF IsDict(Get(product, key)) \/ IsList(Get(product, key)) THEN JsonDumps(Get(product, key))
    ELSE PyStr(Get(product, key))

\* save_to_csv: the rows handed to the writer, one per record, cells in column order
CsvLines(products, fieldnames) ==
    [i \in 1..Len(products) |-> [j \in 1..Len(fieldnames) |-> CsvCell(products[i], fieldnames[j])]]

\* save_to_csv after the duplicates are removed
CsvFile(s, products) ==
    [written |-> TRUE, rows |-> products, header |-> OrderedFieldnames(s, products),
     lines |-> CsvLines(products, OrderedFieldnames(s, products))]

\* save_to_csv(products) for a non-empty list
SaveToCsv(s, products) == CsvFile(s, RemoveDuplicates(s, products))

\* One iteration of scrape_query (search, extract_products, the continuation
\* decision).  When the loop ends, scrape_query returns (or raises) into main's
\* for-loop, which extends its list (or reports the error), moves to the next query
\* and enters scrape_query again with fresh locals.
ScrapeStep ==
    /\ pc = "loop"
    /\ \E reply \in Replies : StepOn(reply, Search(reply))
    /\ UNCHANGED <<site, source, limit, csv, pvars>>

\* main after the for-loop: nothing is written when no product was collected,
\* otherwise save_to_csv removes the duplicates and writes the rows
Save ==
    /\ pc = "end"
    /\ pc' = "saved"
    /\ csv' = IF collected = <<>> THEN NoFile
              ELSE SaveToCsv(site, collected)
    /\ UNCHANGED <<site, source, limit, qi, inQuery, page, offset, all_products, total_count,
                   total_pages, collected, reqs, lastReply, lastResult, expected, pvars>>

Next == ScrapeStep \/ Save

\* the state after main's set-up, for a source and a limit still to be chosen
InitMain ==
    /\ site \in Sites
    /\ pc = "loop"
    /\ qi = 1
    /\ inQuery = FALSE
    /\ page = FreshLocals.page
    /\ offset = FreshLocals.offset
    /\ all_products = FreshLocals.all_products
    /\ total_count = FreshLocals.total_count
    /\ total_pages = FreshLocals.total_pages
    /\ collected = <<>>
    /\ reqs = <<>>
    /\ lastReply = NoReply
    /\ lastResult = NoResult
    /\ expected = <<>>
    /\ csv = NoFile
    /\ arg = Idle
    /\ out = Idle

\* an unconstrained source: any page or failure on every fetch
Init ==
    /\ InitMain
    /\ source = [mode |-> "errors"]
    /\ limit = FreeLimit

Spec == Init /\ [][Next]_vars

\* a source with a fixed total count T, queried with limit L
InitTotal ==
    /\ InitMain
    /\ source \in {[mode |-> "total", T |-> T] : T \in 0..MaxTotal}
    /\ limit \in 1..MaxLimit

SpecTotal == InitTotal /\ [][Next]_vars

\* a source that always returns a non-empty page and signals "more"
InitCeiling ==
    /\ InitMain
    /\ source \in {[mode |-> "more", sig |-> s] :
                      s \in IF site = "snitch" THEN SnitchMoreSignals ELSE TasvaMoreSignals}
    /\ limit = IF site = "tasva" THEN TasvaMainLimit
               ELSE IF source.sig = "fullPage" THEN 1 ELSE SnitchMainLimit

SpecCeiling == InitCeiling /\ [][Next]_vars

\* a source of mixed signals, queried with the limit of the unconstrained source
InitSignals ==
    /\ InitMain
    /\ source = [mode |-> "signals"]
    /\ limit = FreeLimit

SpecSignals == InitSignals /\ [][Next]_vars

----------------------------------------------------------------------------
(* Pagination against a source with a fixed total count (SpecTotal)         *)

\* the records 1..T of the source as scrape_query collects them
AllRecords(s, T) == [i \in 1..T |-> Collected(s, i)]

\* C1 as stated: for every T, a query makes exactly ceil(T/L) fetches and returns
\* exactly T records.
C1_ExactlyCeilFetches ==
    lastResult # NoResult =>
        /\ lastResult.fetches = CeilDiv(source.T, limit)
        /\ Len(lastResult.products) = source.T

\* the last page of T records in pages of lim lies below the safety limit
BelowSafetyLimit(s, T, lim) ==
    IF s = "snitch" THEN CeilDiv(T, lim) <= SafetyPageLimit
    ELSE (CeilDiv(T, lim) - 1) * lim <= SafetyOffsetLimit

\* C1 (amended): for T >= 1 whose last page lies below the safety limit, a query
\* makes exactly ceil(T/L) fetches and returns the T records in order; for T = 0 it
\* makes exactly one fetch (which comes back empty) and returns no record.
C1_CeilFetchesOrOneWhenEmpty ==
    lastResult # NoResult =>
        IF source.T = 0
        THEN lastResult.fetches = 1 /\ lastResult.products = <<>>
        ELSE BelowSafetyLimit(site, source.T, limit)
                => /\ lastResult.fetches = CeilDiv(source.T, limit)
                   /\ lastResult.products = AllRecords(site, source.T)

\* a query over MaxTotal records in pages of MaxLimit has ended, the last page short
C1_Witness ==
    /\ lastResult # NoResult
    /\ source.T = MaxTotal /\ limit = MaxLimit
    /\ MaxTotal % MaxLimit # 0
    /\ lastResult.fetches = CeilDiv(MaxTotal, MaxLimit)
    /\ lastResult.fetches >= 2
    /\ Len(lastResult.products) = MaxTotal

----------------------------------------------------------------------------
(* Pagination against a source that always signals "more" (SpecCeiling)    *)

\* the largest page number (snitch) or offset (tasva) a query may request
RequestCeiling(s) == IF s = "snitch" THEN SafetyPageLimit ELSE SafetyOffsetLimit

\* the number of fetches after which the safety limit ends a query
FetchesToCeiling(s, lim) ==
    IF s = "snitch" THEN SafetyPageLimit ELSE (SafetyOffsetLimit \div lim) + 1

\* C2: against a source whose every page is non-empty and signals "more", no query
\* requests a page above 1000 (snitch) or an offset above 100000 (tasva), a query makes
\* a bounded number of fetches, and it ends by the safety limit, whatever the signal,
\* with everything collected so far, which is not empty.
C2_SafetyCeiling ==
    /\ reqs # <<>> => reqs[Len(reqs)] <= RequestCeiling(site)
    /\ Len(reqs) <= FetchesToCeiling(site, limit)
    /\ Len(all_products) = (IF inQuery THEN Len(reqs) ELSE 0)
    /\ lastResult # NoResult =>
          /\ lastResult.outcome = "safety"
          /\ lastResult.fetches = FetchesToCeiling(site, limit)
          /\ Len(lastResult.products) = lastResult.fetches
          /\ lastResult.products # <<>>

\* a snitch query has requested page 1000 and has been ended there with what it
\* collected
C2_Witness ==
    /\ site = "snitch"
    /\ ~inQuery
    /\ lastResult.outcome = "safety"
    /\ reqs[Len(reqs)] = SafetyPageLimit
    /\ lastResult.products # <<>>

----------------------------------------------------------------------------
(* Failures of fetches and of extraction (Spec)                             *)

\* the response search() judges: for tasva the retry's response when there is one
FinalResponse(reply) ==
    IF site = "snitch" THEN reply.first ELSE TasvaFinalResponse(reply.first, reply.second)

Undecodable(r) == ~JsonLoads(r.body).ok

\* a failed fetch as the claim words it: timeout, connection failure, a status
\* outside 200..299, an undecodable body
FailedNon2xx(r) ==
    IF IsException(r) THEN TRUE ELSE (r.status < 200 \/ r.status > 299 \/ Undecodable(r))

\* a failed fetch: timeout, connection failure, a 4xx or 5xx status, an undecodable body
Failed4xx5xx(r) ==
    IF IsException(r) THEN TRUE ELSE (r.status \in 400..599 \/ Undecodable(r))

\* the step that handles a failed fetch k: search returns {}, the query ends with no
\* further fetch, returning the records of fetches 1..k-1, which main adds to its
\* list before it goes on to the next query
FailureHandled ==
    /\ Search(lastReply') = EmptyDict
    /\ ~inQuery'
    /\ Len(reqs') = (IF inQuery THEN Len(reqs) ELSE 0) + 1
    /\ all_products = (IF inQuery THEN expected ELSE <<>>)
    /\ lastResult' = [outcome |-> "empty", query |-> qi, fetches |-> Len(reqs'),
                      products |-> all_products]
    /\ collected' = collected \o all_products
    /\ qi' = qi + 1
    /\ pc' = (IF qi + 1 > NumQueries THEN "end" ELSE "loop")

\* C9 as stated: a fetch that fails by a timeout, a connection failure, a non-2xx
\* status or an undecodable body ends the query with the records of the earlier
\* fetches, and main goes on.
C9_FailureNon2xx ==
    [][(pc = "loop" /\ FailedNon2xx(FinalResponse(lastReply'))) => FailureHandled]_vars

\* C9 (amended): a fetch that fails by a timeout, a connection failure, a 4xx or 5xx
\* status or an undecodable body makes search return an empty result; scrape_query
\* makes no further fetch for the query and returns exactly the records of fetches
\* 1..k-1, and main goes on to the next query.  (A response with another non-2xx
\* status and a decodable body is processed like a 2xx response.)
C9_Failure4xx5xx ==
    [][(pc = "loop" /\ Failed4xx5xx(FinalResponse(lastReply'))) => FailureHandled]_vars

\* the second fetch of the first query timed out: the query returned the records of
\* its first fetch and main is at the second query
C9_Witness ==
    /\ pc = "loop" /\ qi = 2 /\ ~inQuery
    /\ lastReply.first = Timeout
    /\ lastResult.outcome = "empty" /\ lastResult.query = 1 /\ lastResult.fetches = 2
    /\ lastResult.products # <<>>
    /\ collected = lastResult.products

\* C10 as stated: a raw record that cannot be extracted is passed over, and the query
\* returns every other record of its pages.
C10_RecordErrorSkipped ==
    (~inQuery /\ lastResult # NoResult)
        => (lastResult.outcome # "raise" /\ lastResult.products = expected)

----------------------------------------------------------------------------
(* Specifications of single calls.  The argument of the call is drawn from a *)
(* bounded set by Init, and the action applies the function to it; main is  *)
(* not running (pc = "call").                                               *)

InitCall ==
    /\ pc = "call"
    /\ source = [mode |-> "none"]
    /\ limit = FreeLimit
    /\ qi = 1
    /\ inQuery = FALSE
    /\ page = FreshLocals.page
    /\ offset = FreshLocals.offset
    /\ all_products = FreshLocals.all_products
    /\ total_count = FreshLocals.total_count
    /\ total_pages = FreshLocals.total_pages
    /\ collected = <<>>
    /\ reqs = <<>>
    /\ lastReply = NoReply
    /\ lastResult = NoResult
    /\ expected = <<>>
    /\ csv = NoFile

----------------------------------------------------------------------------
(* remove_duplicates_by_title / remove_duplicates_by_id on a record list,  *)
(* and then on its own output                                               *)

MaxDedupLen == 3     \* longest record list handed to the dedupers
MaxDedupCalls == 2   \* the deduper is applied to the list, then to its own output

\* a record without the key field
Absent == [t |-> "absent"]

\* the values of the title field (snitch) and of the ProductID field (tasva)
TitleValues == {Absent, None, EmptyStr, Str(<<" ">>), Str(<<"A">>), Str(<<"a">>),
                Str(<<"a", " ">>), Str(<<"b">>), Num(0)}
IdValues == {Absent, None, EmptyStr, Str(<<"A", "1">>), Str(<<"a", "1">>),
             Str(<<"a", "1", " ">>), Num(1), Num(0), Bool(TRUE)}

\* the field the deduper of a site reads
KeyField(s) == IF s = "snitch" THEN Key["title"] ELSE Key["ProductID"]

\* record number i of a list, carrying the key value k (the id tells the records apart)
DedupRecord(s, i, k) ==
    Dict(<< <<Key["id"], Num(i)>> >> \o (IF k = Absent THEN <<>> ELSE << <<KeyField(s), k>> >>))

DedupInputs(s) ==
    {[i \in 1..Len(ks) |-> DedupRecord(s, i, ks[i])] :
        ks \in SeqsUpTo(IF s = "snitch" THEN TitleValues ELSE IdValues, MaxDedupLen)}

\* one call of the deduper: on the argument first, then on the previous output
RemoveDuplicatesCall ==
    /\ pc = "call"
    /\ Len(out) < MaxDedupCalls
    /\ out' = Append(out, RemoveDuplicates(site, IF out = <<>> THEN arg ELSE out[Len(out)]))
    /\ UNCHANGED <<mvars, arg>>

NextDedup == RemoveDuplicatesCall

InitDedup ==
    /\ InitCall
    /\ site \in Sites
    /\ arg \in DedupInputs(site)
    /\ out = <<>>

SpecDedup == InitDedup /\ [][NextDedup]_vars

\* the identity key of a record: the normalized title (snitch), the ProductID (tasva)
IdentityKey(s, product) ==
    IF s = "snitch" THEN Str(NormalizedTitle(product)) ELSE ProductIdOf(product)

\* a key is empty when it is absent, None, '' or another value that counts as false
\* (0, False); for snitch also a title of white space only, whose normalized form is ''
KeyEmpty(k) == ~Truthy(k)

\* the k-th smallest element of a set of indices
KthIndex(I, k) == CHOOSE i \in I : Cardinality({j \in I : j < i}) = k - 1

\* the subsequence of xs at the indices I, in the original order
SubsequenceAt(xs, I) == [k \in 1..Cardinality(I) |-> xs[KthIndex(I, k)]]

\* the indices of the records that carry an empty key or are the first with their key
FirstOccurrences(s, xs) ==
    {i \in 1..Len(xs) :
        \/ KeyEmpty(IdentityKey(s, xs[i]))
        \/ \A j \in 1..(i - 1) : ~PyEq(IdentityKey(s, xs[j]), IdentityKey(s, xs[i]))}

\* C3: the dedupers return the subsequence of the input, in the original order, made
\* of every record whose identity key is empty or absent and, for each non-empty key,
\* of the first record carrying it; no two returned records share a non-empty key.
C3_StableFirstOccurrence ==
    out # <<>> =>
        /\ out[1] = SubsequenceAt(arg, FirstOccurrences(site, arg))
        /\ \A i, j \in 1..Len(out[1]) :
              (i < j /\ ~KeyEmpty(IdentityKey(site, out[1][i])))
                  => ~PyEq(IdentityKey(site, out[1][i]), IdentityKey(site, out[1][j]))

\* a list with a repeated key and records without a key has been deduplicated:
\* the repeat is gone, both keyless records stay
C3_Witness ==
    /\ site = "tasva"
    /\ Len(out) >= 1
    /\ arg = <<DedupRecord("tasva", 1, Str(<<"A", "1">>)), DedupRecord("tasva", 2, EmptyStr),
               DedupRecord("tasva", 3, Str(<<"A", "1">>))>>
    /\ out[1] = <<arg[1], arg[2]>>

\* the raw value of the key field
RawKey(s, product) == GetOr(product, KeyField(s), EmptyStr)

\* two string keys that differ at most in letter case and leading/trailing white space
SameUpToCaseAndSpace(k1, k2) ==
    IsStr(k1) /\ IsStr(k2) /\ StrStrip(StrLower(k1.s)) = StrStrip(StrLower(k2.s))

\* a string key that has a character other than white space
NonBlank(k) == IsStr(k) /\ StrStrip(k.s) # <<>>

\* C4 as stated: in both dedupers a record whose non-blank string key differs from an
\* earlier record's key only in case or surrounding white space is dropped.
C4_NormalizedInBoth ==
    out # <<>> =>
        \A i, j \in 1..Len(arg) :
            (i < j /\ NonBlank(RawKey(site, arg[i])) /\ NonBlank(RawKey(site, arg[j]))
                   /\ SameUpToCaseAndSpace(RawKey(site, arg[i]), RawKey(site, arg[j])))
                => arg[j] \notin Range(out[1])

\* C4 (amended): snitch compares the lower-cased, stripped title, so a record whose
\* non-blank string title differs from an earlier one only in case or surrounding
\* white space is dropped; tasva compares the ProductID as it is, so a record with a
\* non-empty string ProductID is dropped exactly when an earlier record carries the
\* identical ProductID.
C4_NormalizedSnitchExactTasva ==
    out # <<>> =>
        \A j \in 1..Len(arg) :
            /\ (site = "snitch" /\ NonBlank(RawKey(site, arg[j])))
                  => ((\E i \in 1..(j - 1) :
                          /\ NonBlank(RawKey(site, arg[i]))
                          /\ SameUpToCaseAndSpace(RawKey(site, arg[i]), RawKey(site, arg[j])))
                      => arg[j] \notin Range(out[1]))
            /\ (site = "tasva" /\ IsStr(RawKey(site, arg[j])) /\ Truthy(RawKey(site, arg[j])))
                  => (arg[j] \notin Range(out[1])
                      <=> \E i \in 1..(j - 1) : RawKey(site, arg[i]) = RawKey(site, arg[j]))

\* snitch has dropped a title that differs from an earlier one in case and white space
C4_Witness ==
    /\ site = "snitch"
    /\ Len(out) >= 1
    /\ arg = <<DedupRecord("snitch", 1, Str(<<"A">>)), DedupRecord("snitch", 2, Str(<<"a", " ">>))>>
    /\ out[1] = <<arg[1]>>

\* C5: applying a deduper to its own output returns that output unchanged.
C5_Idempotent ==
    Len(out) = MaxDedupCalls => out[2] = out[1]

\* a list with duplicates has been deduplicated twice
C5_Witness ==
    /\ Len(out) = MaxDedupCalls
    /\ Len(arg) = MaxDedupLen
    /\ Len(out[1]) < Len(arg)
    /\ out[2] = out[1]

----------------------------------------------------------------------------
(* SnitchScraper._extract_product_info on one raw record                    *)

MaxFields == 2       \* most fields of a raw record

\* the field names of a raw record, by position
FieldNames == <<Key["title"], Key["tags"], Key["meta"], Key["image"]>>

Quote == "\""
Backslash == "\\"

\* field values: None, scalars, strings that look like flattened values, sequences
\* of scalars, sequences with nested elements, mappings
RawValues ==
    {None, Bool(TRUE), Num(1), Str(<<"a">>), EmptyStr, Str(<<"[", "]">>),
     Str(<<"a", ",", " ", "b">>), Str(<<Quote>>), Str(JsonDumps(Dict(<< <<Key["id"], Num(1)>> >>))),
     List(<<>>), List(<<Str(<<"a">>)>>), List(<<Str(<<"a">>), Str(<<"b">>)>>), List(<<None>>),
     List(<<Num(1), Bool(TRUE)>>), List(<<Dict(<< <<Key["id"], Num(1)>> >>)>>), List(<<List(<<>>)>>),
     List(<<Str(<<"a">>), List(<<None>>)>>),
     EmptyDict, Dict(<< <<Key["id"], Num(1)>> >>), Dict(<< <<Key["title"], Str(<<"a", Quote, Backslash>>)>> >>),
     Dict(<< <<Key["tags"], List(<<Str(<<"a">>), Bool(FALSE)>>)>>, <<Key["meta"], Dict(<< <<Key["id"], None>> >>)>> >>)}

\* raw records that are mappings, and some raw records that are not
RawRecords ==
    {Dict([i \in 1..Len(vs) |-> <<FieldNames[i], vs[i]>>]) : vs \in SeqsUpTo(RawValues, MaxFields)}
NonMappings == {None, Num(1), Str(<<"x">>), List(<<>>)}

\* _extract_product_info(item): item.items() raises AttributeError unless item is a dict
ExtractProductInfo(item) ==
    IF IsDict(item) THEN [raised |-> FALSE, product |-> SnitchExtractInfo(item)] ELSE Raised

\* one call of _extract_product_info
ExtractProductInfoCall ==
    /\ pc = "call"
    /\ out = Idle
    /\ out' = ExtractProductInfo(arg)
    /\ UNCHANGED <<mvars, arg>>

NextFlatten == ExtractProductInfoCall

InitFlatten ==
    /\ InitCall
    /\ site = "snitch"
    /\ arg \in RawRecords \cup NonMappings
    /\ out = Idle

SpecFlatten == InitFlatten /\ [][NextFlatten]_vars

\* C7: for every raw record that is a mapping of JSON-compatible values,
\* _extract_product_info returns without raising and its output has exactly the keys
\* of its input (none missing, none added).
C7_FlattenTotal ==
    (out # Idle /\ IsDict(arg)) => (~out.raised /\ KeySeq(out.product) = KeySeq(arg))

\* a record with a None field and a nested field has been flattened
C7_Witness ==
    /\ out # Idle
    /\ arg = Dict(<< <<Key["title"], None>>, <<Key["tags"], List(<<Dict(<< <<Key["id"], Num(1)>> >>)>>)>> >>)
    /\ ~out.raised
    /\ Keys(out.product) = {Key["title"], Key["tags"]}

\* a flattened record is at hand
Flattened == out # Idle /\ IsDict(arg) /\ ~out.raised

\* C8 as stated: the raw value of every field is determined by its flattened value:
\* no other raw value is flattened to the same output value.
C8_Injective ==
    Flattened =>
        \A i \in 1..Len(arg.kv) : \A w \in RawValues :
            SnitchFieldValue(w) = out.product.kv[i][2] => w = arg.kv[i][2]

\* a value that is serialized: a mapping, an empty sequence, a sequence with an
\* element that is a mapping or a sequence
Serialized(v) ==
    \/ IsDict(v)
    \/ IsList(v) /\ (v.items = <<>> \/ \E i \in 1..Len(v.items) : ~IsScalarOrNone(v.items[i]))

\* the flattened value w of the raw value v keeps v: as it is, or as JSON text
Recoverable(v, w) ==
    /\ IsScalarOrNone(v) => w = v
    /\ Serialized(v) => (IsStr(w) /\ JsonLoads(w.s).ok /\ JsonLoads(w.s).v = v)

\* C8 (amended): snitch _extract_product_info keeps None and scalars as they are and
\* turns a mapping, an empty sequence and a sequence with a nested element into JSON
\* text whose re-parsing gives back the original exactly (a non-empty sequence of
\* scalars is joined with ', ' and is not covered).
C8_ScalarsKeptNestedReparse ==
    Flattened => \A i \in 1..Len(arg.kv) : Recoverable(arg.kv[i][2], out.product.kv[i][2])

\* a mapping whose string holds a quote and a backslash has been flattened to text
\* that parses back to it
C8_Witness ==
    /\ Flattened
    /\ arg = Dict(<< <<Key["title"], Dict(<< <<Key["title"], Str(<<"a", Quote, Backslash>>)>> >>)>> >>)
    /\ IsStr(out.product.kv[1][2])
    /\ JsonLoads(out.product.kv[1][2].s).v = arg.kv[1][2]

----------------------------------------------------------------------------
(* SnitchScraper.extract_products on one payload                            *)

MaxArray == 2        \* longest array of records in a payload

\* n records numbered from base + 1
Recs(base, n) == List(SnitchRecords(base + 1, base + n))

\* the entry of a payload under key k (none when v is Absent)
Entry(k, v) == IF v = Absent THEN <<>> ELSE << <<k, v>> >>

\* what a payload holds under 'data', 'products', 'results', 'items' and 'meta'; the
\* records of each place carry their own numbers
DataOptions ==
    {Absent, Dict(<< <<Key["total_count"], Num(1)>> >>)}
    \cup {Recs(0, n) : n \in 0..MaxArray}
    \cup {Dict(<< <<Key["products"], Recs(40, n)>> >>) : n \in 0..MaxArray}
    \cup {Dict(<< <<Key["results"], Recs(50, n)>> >>) : n \in 0..MaxArray}
    \cup {Dict(<< <<Key["products"], Str(<<"x">>)>>, <<Key["results"], Recs(50, n)>> >>) : n \in 0..MaxArray}
    \cup {Dict(<< <<Key["products"], Recs(40, n)>>, <<Key["results"], Recs(50, 1)>> >>) : n \in 0..MaxArray}
ProductsOptions == {Absent} \cup {Recs(10, n) : n \in 0..MaxArray}
ResultsOptions == {Absent, Recs(20, 1)}
ItemsOptions == {Absent, List(<<EmptyDict, SnitchRecord(31)>>)}
MetaOptions == {Absent, SnitchRecord(61)}

Payloads ==
    {Dict(Entry(Key["meta"], m) \o Entry(Key["items"], i) \o Entry(Key["results"], r)
          \o Entry(Key["products"], p) \o Entry(Key["data"], d)) :
        d \in DataOptions, p \in ProductsOptions, r \in ResultsOptions,
        i \in ItemsOptions, m \in MetaOptions}

\* one call of extract_products
ExtractProductsCall ==
    /\ pc = "call"
    /\ out = Idle
    /\ out' = SnitchExtractProducts(arg)
    /\ UNCHANGED <<mvars, arg>>

NextExtract == ExtractProductsCall

InitExtract ==
    /\ InitCall
    /\ site = "snitch"
    /\ arg \in Payloads
    /\ out = Idle

SpecExtract == InitExtract /\ [][NextExtract]_vars

\* the value under a key, and under a key of the value under a key (Absent when none)
At1(p, k) == IF IsDict(p) /\ HasKey(p, k) THEN Get(p, k) ELSE Absent
At2(p, k1, k2) == At1(At1(p, k1), k2)

\* the values at the known key-paths, in their order
KnownPathValues(p) ==
    <<At1(p, Key["data"]), At1(p, Key["products"]), At1(p, Key["results"]), At1(p, Key["items"]),
      At2(p, Key["data"], Key["products"]), At2(p, Key["data"], Key["results"])>>

\* the first array among the first n values (Absent when there is none)
FirstArray(vals, n) ==
    IF \E i \in 1..n : IsList(vals[i])
    THEN vals[CHOOSE i \in 1..n : IsList(vals[i]) /\ \A j \in 1..(i - 1) : ~IsList(vals[j])]
    ELSE Absent

\* the flattened elements of an array, in order
FlattenedElements(items) == [i \in 1..Len(items) |-> SnitchExtractInfo(items[i])]

\* C6 as stated: when an array sits at a known key-path, extract_products returns
\* exactly the flattened elements of the first such array, also when it is empty.
C6_FirstKnownArray ==
    (out # Idle /\ IsList(FirstArray(KnownPathValues(arg), 6)))
        => out = Ok(FlattenedElements(FirstArray(KnownPathValues(arg), 6).items))

\* the value the known paths lead to: the first array among the top-level data,
\* products, results, items; failing that, for a mapping under data, data.products
\* when data has a products key and data.results otherwise
Located(p) ==
    IF IsList(FirstArray(KnownPathValues(p), 4)) THEN FirstArray(KnownPathValues(p), 4)
    ELSE IF At2(p, Key["data"], Key["products"]) # Absent THEN At2(p, Key["data"], Key["products"])
    ELSE At2(p, Key["data"], Key["results"])

\* what extract_products returns for the located array with the elements kept
ReturnsKeptOrDeep(payload, kept, result) ==
    IF kept # <<>> THEN result = Ok(FlattenedElements(kept))
    ELSE result = SnitchDeepExtraction(payload)

\* C6 (amended): when the located value is an array, extract_products returns
\* exactly the flattened non-empty elements of that array, in order, provided there
\* is one; when the array is empty or holds only empty mappings, it returns what the
\* deep search over the whole payload yields.
C6_LocatedArrayOrDeepSearch ==
    (out # Idle /\ IsList(Located(arg)))
        => ReturnsKeptOrDeep(arg, SelectSeq(Located(arg).items, Truthy), out)

\* a payload with arrays at several known paths: the records of 'data' are returned
C6_Witness ==
    /\ out # Idle
    /\ At1(arg, Key["data"]) = Recs(0, MaxArray)
    /\ At1(arg, Key["products"]) = Recs(10, 1)
    /\ At1(arg, Key["meta"]) = SnitchRecord(61)
    /\ out = Ok(FlattenedElements(SnitchRecords(1, MaxArray)))

----------------------------------------------------------------------------
(* TasvaScraper.search as a single call (SpecSearch): the POSTs it sends    *)
(* and the value it returns, for the replies to the first POST and to the   *)
(* retry                                                                    *)

SearchQueries == {"kurta", "sherwani"}
SearchOffsets == {0, FreeLimit}

\* a 400 answer whose msg is not ["INVALID_REQUEST"]
OtherError == Response(400, JsonDumps(Dict(<< <<Key["msg"], List(<<Str(Key["msg"])>>)>> >>)))

SearchFirsts == {Ok200(ShortPage("tasva")), InvalidRequest, OtherError, Response(400, Garbage),
                 Response(500, Garbage), Response(300, JsonDumps(ShortPage("tasva"))), Timeout}
SearchSeconds == {Ok200(ShortPage("tasva")), Response(300, JsonDumps(ShortPage("tasva"))),
                  InvalidRequest,
                  Response(404, JsonDumps(ShortPage("tasva"))), Response(503, Garbage),
                  Response(200, Garbage), Timeout, ConnectionError}

\* scraper.search(query, offset=offset, limit=limit) against the replies in arg
TasvaSearchCall ==
    /\ pc = "call"
    /\ out = Idle
    /\ out' = [posts |-> TasvaPostsSent(arg.query, arg.offset, arg.limit, arg.first),
               result |-> TasvaSearch(arg.first, arg.second)]
    /\ UNCHANGED <<mvars, arg>>

NextSearch == TasvaSearchCall

InitSearch ==
    /\ InitCall
    /\ site = "tasva"
    /\ arg \in [query : SearchQueries, offset : SearchOffsets, limit : {FreeLimit},
                first : SearchFirsts, second : SearchSeconds]
    /\ out = Idle

SpecSearch == InitSearch /\ [][NextSearch]_vars

\* the first answer is status 400 with a JSON body whose msg is ["INVALID_REQUEST"]
IsInvalidRequest400(r) ==
    /\ r.kind = "http"
    /\ r.status = 400
    /\ r.body = JsonDumps(Dict(<< <<Key["msg"], List(<<Str(Key["INVALID_REQUEST"])>>)>> >>))

\* the retry is sent once, only after a 400 INVALID_REQUEST answer, with the first
\* payload minus its hash and validateHash false; nothing is sent after it
RetryShape ==
    /\ Len(out.posts) \in {1, 2}
    /\ Len(out.posts) = 2 => IsInvalidRequest400(arg.first)
    /\ Len(out.posts) = 2 =>
          /\ DOMAIN out.posts[2] = DOMAIN out.posts[1] \ {"hash"}
          /\ "hash" \in DOMAIN out.posts[1]
          /\ out.posts[2].validateHash = FALSE
          /\ out.posts[1].validateHash = TRUE
          /\ \A k \in DOMAIN out.posts[2] \ {"validateHash"} : out.posts[2][k] = out.posts[1][k]

\* C11 as stated: at most one retry, sent only after a 400 INVALID_REQUEST answer with
\* the hash removed and validateHash false; when the retry is also non-2xx the call
\* returns the empty result.
C11_RetryNon2xxEmpty ==
    out # Idle =>
        /\ RetryShape
        /\ (Len(out.posts) = 2 /\ (IsException(arg.second) \/ arg.second.status \notin 200..299))
              => out.result = EmptyDict

\* C11 (amended): at most one retry, sent only after a 400 INVALID_REQUEST answer with
\* the hash removed and validateHash false; when the retry raises or is answered with
\* a 4xx or 5xx status the call returns the empty result.  (A retry answered with
\* another non-2xx status and a decodable body returns that body.)
C11_Retry4xx5xxEmpty ==
    out # Idle =>
        /\ RetryShape
        /\ (Len(out.posts) = 2 /\ (IsException(arg.second) \/ arg.second.status \in 400..599))
              => out.result = EmptyDict

\* the first POST was refused as INVALID_REQUEST, the retry without the hash was
\* answered 404, and the call returned {}
C11_Witness ==
    /\ out # Idle
    /\ arg.first = InvalidRequest
    /\ arg.second = Response(404, JsonDumps(ShortPage("tasva")))
    /\ Len(out.posts) = 2
    /\ out.result = EmptyDict

----------------------------------------------------------------------------
(* ShopifySitemapScraper.save_to_mongodb (SpecMongo): the collection is a   *)
(* sequence of documents in natural order; the call creates the index and   *)
(* then upserts the records one by one                                      *)

MaxProducts == 2     \* longest product list handed to save_to_mongodb

\* the _id the store gives the n-th document it inserts, and the value of utcnow()
ObjectId(n) == [t |-> "oid", n |-> n]
UtcNow(n) == [t |-> "datetime", at |-> n]

\* an update that replaces the stored document by the update document
ReplaceFields(doc, kv) == Dict(<< <<Key["_id"], Get(doc, Key["_id"])>> >> \o kv)

RECURSIVE SetFields(_, _)
\* {'$set': product}: every field of the record is written into the stored document,
\* the other fields of the document stay
SetFields(doc, kv) ==
    IF kv = <<>> THEN doc ELSE SetFields(Put(doc, kv[1][1], kv[1][2]), Tail(kv))

\* the first document matching {'id': product_id}, 0 when there is none
MatchIndex(store, product_id) ==
    IF \E i \in 1..Len(store) : GetOr(store[i], Key["id"], None) = product_id
    THEN CHOOSE i \in 1..Len(store) :
            /\ GetOr(store[i], Key["id"], None) = product_id
            /\ \A j \in 1..(i - 1) : GetOr(store[j], Key["id"], None) # product_id
    ELSE 0

\* an upsert that inserts only: a document that matches stays as it is
UpdateOneKeepFirst(store, product_id, product, oid) ==
    IF \E i \in 1..Len(store) : GetOr(store[i], Key["id"], None) = product_id
    THEN store
    ELSE Append(store, Dict(<< <<Key["_id"], ObjectId(oid)>>,
                               <<Key["id"], product_id>> >> \o product.kv))

\* collection.update_one({'id': product_id}, {'$set': product}, upsert=True):
\* the collection afterwards (oid: the _id of an inserted document)
UpdateOne(store, product_id, product, oid) ==
    IF MatchIndex(store, product_id) = 0
    THEN Append(store, SetFields(Dict(<< <<Key["_id"], ObjectId(oid)>>,
                                         <<Key["id"], product_id>> >>), product.kv))
    ELSE [store EXCEPT ![MatchIndex(store, product_id)] = SetFields(@, product.kv)]

\* the state of one save_to_mongodb call: the collection, the records processed, the
\* three counters, the clock, the exceptions its handlers caught, the diagnostics
\* they printed, and what happened to the last record
MongoState(phase, store, n, saved, updated, errors, clock, caught, log, last) ==
    [phase |-> phase, store |-> store, n |-> n, saved_count |-> saved,
     updated_count |-> updated, error_count |-> errors, clock |-> clock,
     caught |-> caught, log |-> log, last |-> last]

NoRecord == [outcome |-> "none"]

\* save_to_mongodb: create_index("id", unique=True) inside try / except Exception: pass
CreateIndex(st, raises) ==
    [st EXCEPT !.phase = "loop", !.caught = @ + (IF raises THEN 1 ELSE 0)]

\* save_to_mongodb: the body of the for-loop for one record (raises: update_one raised).
\* For a record that is not a dict product.get raises AttributeError inside the try;
\* the handler of line 237 catches it and raises AttributeError itself when it formats
\* product.get('id', 'unknown'), before error_count is increased: the call ends there.
SaveOne(st, product, raises) ==
    LET product_id == GetOr(product, Key["id"], None)
        stamped == Put(product, Key["_scraped_at"], UtcNow(st.clock + 1))
        last == [record |-> product, id |-> product_id, before |-> st.store,
                 at |-> UtcNow(st.clock + 1)]
    IN  IF ~IsDict(product)
        THEN [st EXCEPT !.phase = "raised", !.caught = @ + 1,
                        !.last = [outcome |-> "raised", record |-> product, before |-> st.store]]
        ELSE IF ~Truthy(product_id)
        THEN [st EXCEPT !.n = @ + 1, !.error_count = @ + 1,
                        !.last = last @@ [outcome |-> "skipped"]]
        ELSE IF raises
        THEN [st EXCEPT !.n = @ + 1, !.clock = @ + 1, !.error_count = @ + 1,
                        !.caught = @ + 1, !.log = Append(@, "Error saving product"),
                        !.last = last @@ [outcome |-> "error"]]
        ELSE IF MatchIndex(st.store, product_id) = 0
        THEN [st EXCEPT !.n = @ + 1, !.clock = @ + 1, !.saved_count = @ + 1,
                        !.store = UpdateOne(st.store, product_id, stamped, Len(st.store) + 1),
                        !.last = last @@ [outcome |-> "inserted"]]
        ELSE [st EXCEPT !.n = @ + 1, !.clock = @ + 1, !.updated_count = @ + 1,
                        !.store = UpdateOne(st.store, product_id, stamped, Len(st.store) + 1),
                        !.last = last @@ [outcome |-> "updated"]]

\* the records handed to save_to_mongodb: two with id 1 and different fields, one
\* with id 2, one without id, one with the falsy id 0, one that is not a mapping
MongoRecords ==
    {SnitchRecord(1), SnitchRecord(2), List(<<Num(1)>>),
     Dict(<< <<Key["id"], Num(1)>>, <<Key["handle"], Str(<<"h">>)>> >>),
     Dict(<< <<Key["handle"], Str(<<"h">>)>> >>),
     Dict(<< <<Key["id"], Num(0)>>, <<Key["title"], Str(<<"z">>)>> >>)}

\* the document an earlier run stored for id 1 (then with a tags field)
OldDocument ==
    Dict(<< <<Key["_id"], ObjectId(1)>>, <<Key["id"], Num(1)>>,
            <<Key["title"], Str(<<"o", "l", "d">>)>>, <<Key["tags"], Str(<<"x">>)>>,
            <<Key["_scraped_at"], UtcNow(0)>> >>)

MongoStores == {<<>>, <<OldDocument>>}

\* save_to_mongodb up to its for-loop: the index is created, an error of create_index
\* is passed over
CreateIndexStep ==
    /\ pc = "call"
    /\ out.phase = "index"
    /\ \E raises \in BOOLEAN : out' = CreateIndex(out, raises)
    /\ UNCHANGED <<mvars, arg>>

\* one iteration of save_to_mongodb's for-loop
SaveOneStep ==
    /\ pc = "call"
    /\ out.phase = "loop"
    /\ out.n < Len(arg)
    /\ \E raises \in BOOLEAN : out' = SaveOne(out, arg[out.n + 1], raises)
    /\ UNCHANGED <<mvars, arg>>

NextMongo == CreateIndexStep \/ SaveOneStep

InitMongo ==
    /\ InitCall
    /\ site = "shopify"
    /\ arg \in SeqsUpTo(MongoRecords, MaxProducts) \ {<<>>}
    /\ out \in {MongoState("index", s, 0, 0, 0, 0, 0, 0, <<>>, NoRecord) @@ [initial |-> s] :
                    s \in MongoStores}

SpecMongo == InitMongo /\ [][NextMongo]_vars

\* the documents of the collection whose id is v
WithId(store, v) == {i \in 1..Len(store) : GetOr(store[i], Key["id"], None) = v}

\* the stored document of the last record
StoredLast == out.store[CHOOSE i \in WithId(out.store, out.last.id) : TRUE]

\* the last record was upserted (it has an id and update_one did not raise)
Upserted == out.phase = "loop" /\ out.last.outcome \in {"inserted", "updated"}

\* the stored document carries every field of the record with the record's value,
\* and the ingestion timestamp
CarriesRecord(doc, last) ==
    /\ \A k \in Keys(last.record) : HasKey(doc, k) /\ Get(doc, k) = Get(last.record, k)
    /\ HasKey(doc, Key["_scraped_at"]) /\ Get(doc, Key["_scraped_at"]) = last.at

\* C12 as stated: after a record with identity key id was processed the store holds
\* exactly one document with that id, inserted if there was none and overwritten if
\* there was one, and the stored document (but for the store's own _id) equals the
\* record plus _scraped_at.
C12_StoredEqualsRecord ==
    Upserted =>
        /\ Cardinality(WithId(out.store, out.last.id)) = 1
        /\ (out.last.outcome = "inserted") = (WithId(out.last.before, out.last.id) = {})
        /\ CarriesRecord(StoredLast, out.last)
        /\ Keys(StoredLast) = Keys(out.last.record) \cup {Key["_scraped_at"], Key["_id"]}

\* C12 (amended): after a record with identity key id was upserted the store holds
\* exactly one document with that id.  It was inserted if no such document existed,
\* and then it consists of the record's fields, _scraped_at and the store's _id.  If
\* one existed, the record's fields and _scraped_at were written over it and every
\* other field of the old document was kept.
C12_StoredMergesRecord ==
    Upserted =>
        /\ Cardinality(WithId(out.store, out.last.id)) = 1
        /\ (out.last.outcome = "inserted") = (WithId(out.last.before, out.last.id) = {})
        /\ CarriesRecord(StoredLast, out.last)
        /\ out.last.outcome = "inserted" =>
              Keys(StoredLast) = Keys(out.last.record) \cup {Key["_scraped_at"], Key["_id"]}
        /\ out.last.outcome = "updated" =>
              LET old == out.last.before[CHOOSE i \in WithId(out.last.before, out.last.id) : TRUE] IN
              /\ Keys(StoredLast) = Keys(old) \cup Keys(out.last.record) \cup {Key["_scraped_at"]}
              /\ \A k \in Keys(old) \ (Keys(out.last.record) \cup {Key["_scraped_at"]}) :
                    Get(StoredLast, k) = Get(old, k)
        /\ Len(out.store) = Len(out.last.before) + (IF out.last.outcome = "inserted" THEN 1 ELSE 0)

\* a record with id 1 and a handle was written over the stored document of id 1, which
\* keeps its title and tags
C12_Witness ==
    /\ Upserted
    /\ out.last.outcome = "updated"
    /\ out.last.before = <<OldDocument>>
    /\ ~HasKey(out.last.record, Key["title"])
    /\ Get(StoredLast, Key["handle"]) = Str(<<"h">>)
    /\ Get(StoredLast, Key["tags"]) = Str(<<"x">>)

----------------------------------------------------------------------------
(* save_to_csv as a single call (SpecCsv) on records with different fields  *)

MaxCsvLen == 2       \* longest record list handed to save_to_csv

\* the optional fields of the records: two preferred fields, two others, one of
\* which may be null or a list
CsvOptions(s) ==
    [a : {<<>>, << <<(IF s = "snitch" THEN Key["title"] ELSE Key["Name"]), Str(<<"a">>)>> >>},
     b : {<<>>, << <<(IF s = "snitch" THEN Key["price"] ELSE Key["ProductID"]), Num(5)>> >>},
     c : {<<>>, << <<Key["handle"], Bool(TRUE)>> >>},
     d : {<<>>, << <<Key["Gender"], None>> >>, << <<Key["Gender"], List(<<Str(<<"x">>)>>)>> >>}]

CsvRecords(s) == {Dict(o.d \o o.c \o o.b \o o.a) : o \in CsvOptions(s)}

\* scraper.save_to_csv(products)
SaveToCsvCall ==
    /\ pc = "call"
    /\ out = Idle
    /\ out' = SaveToCsv(site, arg)
    /\ UNCHANGED <<mvars, arg>>

NextCsv == SaveToCsvCall

InitCsv ==
    /\ InitCall
    /\ site \in Sites
    /\ arg \in SeqsUpTo(CsvRecords(site), MaxCsvLen) \ {<<>>}
    /\ out = Idle

SpecCsv == InitCsv /\ [][NextCsv]_vars

\* the position of a field in the preferred list, 0 when it is not preferred
PreferredIndex(s, f) ==
    IF \E i \in 1..Len(PreferredOrder(s)) : PreferredOrder(s)[i] = f
    THEN CHOOSE i \in 1..Len(PreferredOrder(s)) : PreferredOrder(s)[i] = f
    ELSE 0

\* h[i] must come before h[j]: preferred before the rest, preferred fields in
\* preferred order, the rest in lexicographic order
ComesBefore(s, f, g) ==
    IF PreferredIndex(s, f) # 0
    THEN PreferredIndex(s, g) = 0 \/ PreferredIndex(s, f) < PreferredIndex(s, g)
    ELSE PreferredIndex(s, g) = 0 /\ StrLess(f, g)

\* the text of a field of a record: empty for an absent or null field
Rendered(product, f) ==
    IF ~HasKey(product, f) \/ Get(product, f) = None THEN <<>>
    ELSE IF Get(product, f).t \in {"dict", "list"} THEN JsonDumps(Get(product, f))
    ELSE PyStr(Get(product, f))

\* C13: the header is the union of the field names of the deduplicated records, each
\* once, the preferred fields that occur first (in preferred order) and the others
\* after them in lexicographic order; there is one row per record, in record order,
\* with absent and null fields rendered as the empty string.
C13_HeaderAndRows ==
    out # Idle =>
        /\ out.rows = RemoveDuplicates(site, arg)
        /\ Range(out.header) = UNION {Keys(out.rows[i]) : i \in 1..Len(out.rows)}
        /\ \A i, j \in 1..Len(out.header) : i < j => ComesBefore(site, out.header[i], out.header[j])
        /\ Len(out.lines) = Len(out.rows)
        /\ \A i \in 1..Len(out.lines) :
              /\ Len(out.lines[i]) = Len(out.header)
              /\ \A j \in 1..Len(out.header) :
                    out.lines[i][j] = Rendered(out.rows[i], out.header[j])

\* two records with different fields were written: the header has the preferred
\* fields before "Gender" and "handle", and the first row has empty cells for the
\* null field and for the field only the second record has
C13_Witness ==
    /\ out # Idle
    /\ site = "snitch"
    /\ Len(out.rows) = 2
    /\ out.header = <<Key["title"], Key["price"], Key["Gender"], Key["handle"]>>
    /\ out.lines[1] = <<<<"a">>, <<>>, <<>>, <<>>>>
    /\ out.lines[2] = <<<<>>, <<"5">>, <<>>, <<"T", "r", "u", "e">>>>

----------------------------------------------------------------------------
(* shopify_scraper.py: main, the constructor and scrape as a state machine. *)
(* The body of an XML answer is kept parsed: whether it is well-formed, and *)
(* the <loc> texts it lists, each with the result of the substring test the *)
(* scraper applies to it.                                                   *)

MaxLocs == 2         \* most <loc> entries the scraper keeps from one sitemap

\* a <loc> text; keep: whether it contains 'sitemap_products' (index) or '/products/'
Loc(n, keep) == [url |-> n, keep |-> keep]
XmlBody(locs) == [wellformed |-> TRUE, locs |-> locs]
MalformedXml == [wellformed |-> FALSE]

\* the locs of a well-formed sitemap that pass the substring test, in document order
KeptLocs(body) == SelectSeq(body.locs, LAMBDA l : l.keep)

\* session.get + raise_for_status + ET.fromstring: "request" when a RequestException
\* is raised, "parse" when ET.ParseError is raised, "ok" otherwise
XmlFetchError(reply) ==
    IF IsException(reply) THEN "request"
    ELSE IF RaisesForStatus(reply) THEN "request"
    ELSE IF ~reply.body.wellformed THEN "parse"
    ELSE "ok"

\* fetch_product_json: the value returned, None after a logged error
FetchProductJson(reply) ==
    IF IsException(reply) THEN None
    ELSE IF RaisesForStatus(reply) THEN None
    ELSE IF ~JsonLoads(reply.body).ok THEN None
    ELSE JsonLoads(reply.body).v

\* fetch_product_json: an except clause ran (and printed its diagnostic)
FetchProductJsonFailed(reply) ==
    IF IsException(reply) THEN TRUE
    ELSE RaisesForStatus(reply) \/ ~JsonLoads(reply.body).ok

\* the state of one run of shopify_scraper.py
ShopifyStart(store) ==
    [pc |-> "main", exit_code |-> None, gets |-> 0, product_sitemaps |-> <<>>, si |-> 0,
     all_product_urls |-> <<>>, ui |-> 0, products |-> <<>>,
     mongo |-> MongoState("index", store, 0, 0, 0, 0, 0, 0, <<>>, NoRecord),
     caught |-> 0, log |-> <<>>, last |-> [fetch |-> "none"]]

\* sys.exit(code), or main returning (code 0)
Exit(st, code) == [st EXCEPT !.pc = "exit", !.exit_code = Num(code)]

\* a set-up that goes on to scrape whatever the ping answered
ShopifySetupNoExit(st, argv, ping) ==
    IF argv # "url" THEN Exit(st, 1) ELSE [st EXCEPT !.pc = "index"]

\* main up to scraper.scrape: the argument checks and the constructor with its ping
ShopifySetup(st, argv, ping) ==
    IF argv # "url" THEN Exit(st, 1)
    ELSE IF ping = "ConnectionFailure"
    THEN Exit([st EXCEPT !.caught = @ + 1, !.log = Append(@, "Failed to connect to MongoDB")], 1)
    ELSE IF ping # "ok" THEN Exit(st, 1)
    ELSE [st EXCEPT !.pc = "index"]

\* an index parser that prints the error and returns []: scrape then finds no product
\* sitemap and returns, and main ends with code 0
ParseSitemapIndexEmpty(st, reply) ==
    IF XmlFetchError(reply) # "ok"
    THEN Exit([st EXCEPT !.gets = @ + 1, !.caught = @ + 1,
                         !.log = Append(@, "Error fetching sitemap index"),
                         !.last = [fetch |-> "index", error |-> XmlFetchError(reply)]], 0)
    ELSE IF KeptLocs(reply.body) = <<>>
    THEN Exit([st EXCEPT !.gets = @ + 1, !.last = [fetch |-> "index", error |-> "ok"]], 0)
    ELSE [st EXCEPT !.gets = @ + 1, !.pc = "sitemaps", !.si = 1,
                    !.product_sitemaps = KeptLocs(reply.body),
                    !.last = [fetch |-> "index", error |-> "ok"]]

\* scrape, step 1: parse_sitemap_index.  An error is printed and raised again; main
\* catches it, prints "Fatal error" and exits with 1.
ParseSitemapIndex(st, reply) ==
    IF XmlFetchError(reply) # "ok"
    THEN Exit([st EXCEPT !.gets = @ + 1, !.caught = @ + 2,
                         !.log = @ \o <<(IF XmlFetchError(reply) = "request"
                                         THEN "Error fetching sitemap index"
                                         ELSE "Error parsing XML"), "Fatal error">>,
                         !.last = [fetch |-> "index", error |-> XmlFetchError(reply)]], 1)
    ELSE IF KeptLocs(reply.body) = <<>>
    THEN Exit([st EXCEPT !.gets = @ + 1, !.last = [fetch |-> "index", error |-> "ok"]], 0)
    ELSE [st EXCEPT !.gets = @ + 1, !.pc = "sitemaps", !.si = 1,
                    !.product_sitemaps = KeptLocs(reply.body),
                    !.last = [fetch |-> "index", error |-> "ok"]]

\* scrape, step 2: one iteration of the loop over product_sitemaps
ParseProductSitemap(st, reply) ==
    LET product_urls == IF XmlFetchError(reply) = "ok" THEN KeptLocs(reply.body) ELSE <<>>
        nxt == [st EXCEPT !.gets = @ + 1, !.si = @ + 1,
                          !.all_product_urls = @ \o product_urls,
                          !.caught = @ + (IF XmlFetchError(reply) = "ok" THEN 0 ELSE 1),
                          !.log = @ \o (CASE XmlFetchError(reply) = "request" -> <<"Error fetching product sitemap">>
                                          [] XmlFetchError(reply) = "parse" -> <<"Error parsing XML">>
                                          [] OTHER -> <<>>),
                          !.last = [fetch |-> "sitemap", error |-> XmlFetchError(reply)]]
    IN  IF st.si < Len(st.product_sitemaps) THEN nxt
        ELSE IF nxt.all_product_urls = <<>> THEN Exit(nxt, 0)
        ELSE [nxt EXCEPT !.pc = "products", !.ui = 1]

\* a loop that hands over to save_to_mongodb as soon as one product is at hand
FetchProductSaveAtFirst(st, reply) ==
    LET nxt == [st EXCEPT !.gets = @ + 1, !.ui = @ + 1,
                          !.products = IF Truthy(FetchProductJson(reply))
                                       THEN Append(@, FetchProductJson(reply)) ELSE @,
                          !.caught = @ + (IF FetchProductJsonFailed(reply) THEN 1 ELSE 0),
                          !.log = @ \o (IF FetchProductJsonFailed(reply)
                                        THEN <<"Error fetching product JSON">> ELSE <<>>),
                          !.last = [fetch |-> "product",
                                    error |-> IF FetchProductJsonFailed(reply) THEN "request" ELSE "ok"]]
    IN  IF nxt.products # <<>> THEN [nxt EXCEPT !.pc = "save"]
        ELSE IF st.ui < Len(st.all_product_urls) THEN nxt
        ELSE Exit(nxt, 0)

\* scrape, step 3: one iteration of the loop over all_product_urls
FetchProduct(st, reply) ==
    LET nxt == [st EXCEPT !.gets = @ + 1, !.ui = @ + 1,
                          !.products = IF Truthy(FetchProductJson(reply))
                                       THEN Append(@, FetchProductJson(reply)) ELSE @,
                          !.caught = @ + (IF FetchProductJsonFailed(reply) THEN 1 ELSE 0),
                          !.log = @ \o (IF FetchProductJsonFailed(reply)
                                        THEN <<"Error fetching product JSON">> ELSE <<>>),
                          !.last = [fetch |-> "product",
                                    error |-> IF FetchProductJsonFailed(reply) THEN "request" ELSE "ok"]]
    IN  IF st.ui < Len(st.all_product_urls) THEN nxt
        ELSE IF nxt.products = <<>> THEN Exit(nxt, 0)
        ELSE [nxt EXCEPT !.pc = "save"]

\* scrape, step 4: save_to_mongodb, the index first and then one record per step;
\* after the last record scrape returns and main ends.  An exception that leaves
\* save_to_mongodb is caught by main, which prints "Fatal error" and exits with 1.
SaveProducts(st, raises) ==
    IF st.mongo.phase = "index" THEN [st EXCEPT !.mongo = CreateIndex(@, raises)]
    ELSE IF ~IsDict(st.products[st.mongo.n + 1])
    THEN Exit([st EXCEPT !.mongo = SaveOne(@, st.products[st.mongo.n + 1], raises),
                         !.caught = @ + 1, !.log = Append(@, "Fatal error")], 1)
    ELSE IF st.mongo.n + 1 < Len(st.products)
    THEN [st EXCEPT !.mongo = SaveOne(@, st.products[st.mongo.n + 1], raises)]
    ELSE Exit([st EXCEPT !.mongo = SaveOne(@, st.products[st.mongo.n + 1], raises)], 0)

----------------------------------------------------------------------------
(* add_image_urls.py: the image URL routines and process_csv.  A CSV file   *)
(* is kept parsed: its field names and its rows, each row a mapping from    *)
(* column names to str.                                                     *)

MaxRows == 2         \* most rows of the input file

RECURSIVE Split(_, _)
\* s.split(sep) for a one-character separator
Split(s, sep) ==
    IF \A i \in 1..Len(s) : s[i] # sep THEN <<s>>
    ELSE LET at == CHOOSE i \in 1..Len(s) : s[i] = sep /\ \A j \in 1..(i - 1) : s[j] # sep
         IN  <<SubSeq(s, 1, at - 1)>> \o Split(SubSeq(s, at + 1, Len(s)), sep)

\* s starts with pat
StartsWith(s, pat) == Len(s) >= Len(pat) /\ SubSeq(s, 1, Len(pat)) = pat

RECURSIVE Replace(_, _)
\* s.replace(pat, '')
Replace(s, pat) ==
    IF s = <<>> THEN <<>>
    ELSE IF StartsWith(s, pat) THEN Replace(SubSeq(s, Len(pat) + 1, Len(s)), pat)
    ELSE <<s[1]>> \o Replace(Tail(s), pat)

UrlPrefix == <<"h", "t", "t", "p", "s", ":", "/", "/", "i", "m", "a", "g", "e",
             "s", "c", "d", "n", ".", "t", "a", "s", "v", "a", ".", "c", "o",
             "m", "/", "i", "m", "g", "/", "a", "p", "p", "/", "p", "r", "o",
             "d", "u", "c", "t", "/", "1", "/">>
UrlSuffix == <<".", "j", "p", "g", "?", "w", "=", "1", "0", "0", "0", "&", "a",
             "u", "t", "o", "=", "f", "o", "r", "m", "a", "t">>

\* a parser that keeps the identifiers as read, not trimmed
ParseImagesUntrimmed(images_str) ==
    IF StrStrip(images_str) = <<>> THEN <<>>
    ELSE SelectSeq(Split(images_str, ","), LAMBDA img : StrStrip(img) # <<>>)

\* generate_image_url(image_id)
GenerateImageUrl(image_id) == UrlPrefix \o image_id \o UrlSuffix

\* parse_images(images_str)
ParseImages(images_str) ==
    IF images_str = <<>> \/ StrStrip(images_str) = <<>> THEN <<>>
    ELSE LET parts == SelectSeq(Split(images_str, ","), LAMBDA img : StrStrip(img) # <<>>)
         IN  [i \in 1..Len(parts) |-> StrStrip(parts[i])]

\* parse_images_from_json: json.loads raised (the except clause passes)
ParseImagesFromJsonRaised(images_json_str) ==
    /\ images_json_str # <<>>
    /\ StrStrip(images_json_str) # <<>>
    /\ ~JsonLoads(images_json_str).ok

\* parse_images_from_json(images_json_str): the Name of every mapping of the array
ParseImagesFromJson(images_json_str) ==
    IF images_json_str = <<>> \/ StrStrip(images_json_str) = <<>> THEN <<>>
    ELSE IF ~JsonLoads(images_json_str).ok THEN <<>>
    ELSE IF ~IsList(JsonLoads(images_json_str).v) THEN <<>>
    ELSE LET named == SelectSeq(JsonLoads(images_json_str).v.items,
                                LAMBDA img : IsDict(img) /\ HasKey(img, Key["Name"]))
         IN  [i \in 1..Len(named) |-> PyStr(Get(named[i], Key["Name"]))]

\* row.get(column, '')
Cell(row, column) == IF column \in DOMAIN row THEN row[column] ELSE <<>>

\* process_csv: image_ids of a row
ImageIds(row) ==
    IF ParseImages(Cell(row, "Images")) # <<>> THEN ParseImages(Cell(row, "Images"))
    ELSE ParseImagesFromJson(Cell(row, "Images_JSON"))

\* process_csv: image_urls of a row
ImageUrls(row) == [i \in 1..Len(ImageIds(row)) |-> GenerateImageUrl(ImageIds(row)[i])]

\* process_csv: swatch_url of a row
SwatchUrl(row) ==
    IF Cell(row, "Swatch") = <<>> THEN <<>>
    ELSE GenerateImageUrl(Replace(Replace(Cell(row, "Swatch"), <<".", "j", "p", "g">>), <<".", "j", "p", "e", "g">>))

\* process_csv: the row written for an input row
OutputRow(row) ==
    [c \in DOMAIN row \cup {"ImageURLs", "ImageURLs_JSON", "PrimaryImageURL", "SwatchImageURL"} |->
        CASE c = "ImageURLs" -> JoinWith(<<",", " ">>, ImageUrls(row))
          [] c = "ImageURLs_JSON" ->
                JsonDumps(List([i \in 1..Len(ImageUrls(row)) |-> Str(ImageUrls(row)[i])]))
          [] c = "PrimaryImageURL" -> IF ImageUrls(row) # <<>> THEN ImageUrls(row)[1] ELSE <<>>
          [] c = "SwatchImageURL" -> SwatchUrl(row)
          [] OTHER -> row[c]]

\* process_csv: new_columns and the field names of the output file
NewColumns == <<"ImageURLs", "ImageURLs_JSON", "PrimaryImageURL", "SwatchImageURL">>
OutputFieldnames(fieldnames) ==
    IF \E i \in 1..Len(fieldnames) : fieldnames[i] = "Images"
    THEN LET images_idx == CHOOSE i \in 1..Len(fieldnames) : fieldnames[i] = "Images"
         IN  SubSeq(fieldnames, 1, images_idx) \o NewColumns
                 \o SubSeq(fieldnames, images_idx + 1, Len(fieldnames))
    ELSE fieldnames \o NewColumns

\* a file that does not exist, an empty file, and a CSV file with a header
Missing == [t |-> "missing"]
EmptyFile == [t |-> "empty"]
CsvContent(fieldnames, rows) == [t |-> "csv", fieldnames |-> fieldnames, rows |-> rows]

\* the state of one run of add_image_urls.py
ImagesStart(input) ==
    [pc |-> "main", exit_code |-> None, input |-> input, output |-> Missing,
     rows_processed |-> 0, rows_with_images |-> 0, caught |-> 0, log |-> <<>>,
     last |-> [fetch |-> "none"]]

\* main and process_csv up to the for-loop: the argument check, the test for the input
\* file, both files opened (the output file is created), the header written
ImagesSetup(st, argv) ==
    IF argv # "file" THEN Exit(st, 1)
    ELSE IF st.input = Missing
    THEN Exit([st EXCEPT !.log = Append(@, "Error: File not found")], 1)
    ELSE IF st.input = EmptyFile
    THEN Exit([st EXCEPT !.output = EmptyFile, !.caught = @ + 1, !.log = Append(@, "Error")], 1)
    ELSE IF st.input.rows = <<>>
    THEN Exit([st EXCEPT !.output = CsvContent(OutputFieldnames(st.input.fieldnames), <<>>)], 0)
    ELSE [st EXCEPT !.pc = "rows",
                    !.output = CsvContent(OutputFieldnames(st.input.fieldnames), <<>>)]

\* process_csv: the json.loads of parse_images_from_json raised for this row
RowJsonRaised(row) ==
    ParseImages(Cell(row, "Images")) = <<>> /\ ParseImagesFromJsonRaised(Cell(row, "Images_JSON"))

\* process_csv: one iteration of the for-loop; after the last row the files are closed
\* and main ends
ProcessRow(st) ==
    LET row == st.input.rows[st.rows_processed + 1]
        nxt == [st EXCEPT !.rows_processed = @ + 1,
                          !.rows_with_images = @ + (IF ImageUrls(row) # <<>> THEN 1 ELSE 0),
                          !.caught = @ + (IF RowJsonRaised(row) THEN 1 ELSE 0),
                          !.output = CsvContent(@.fieldnames, Append(@.rows, OutputRow(row))),
                          !.last = [fetch |-> "row", row |-> row]]
    IN  IF st.rows_processed + 1 < Len(st.input.rows) THEN nxt ELSE Exit(nxt, 0)

----------------------------------------------------------------------------
(* The runs of shopify_scraper.py and add_image_urls.py (SpecTools)         *)

Tools == {"shopify", "add_image_urls"}

\* the first k kept <loc> entries numbered from base, after one that is not kept
Locs(base, k) == <<Loc(0, FALSE)>> \o [i \in 1..k |-> Loc(base + i, TRUE)]

IndexReplies ==
    {Timeout, Response(503, MalformedXml), Response(200, MalformedXml)}
        \cup {Response(200, XmlBody(Locs(0, k))) : k \in 0..MaxLocs}
SitemapReplies(sitemap) ==
    {ConnectionError, Response(200, MalformedXml), Response(200, XmlBody(Locs(0, 0))),
     Response(200, XmlBody(Locs(10 * sitemap.url, 1)))}
ProductReplies(product_url) ==
    {Timeout, Response(200, Garbage), Ok200(SnitchRecord(product_url.url % 10)),
     Ok200(Dict(<< <<Key["handle"], Str(<<"h">>)>> >>)), Ok200(List(<<Num(1)>>))}

\* TasvaScraper._extract_product_info raises on the Media of item: ', '.join(image_names)
\* for a truthy Name that is no str, swatch.replace for a truthy Swatch that is no str
TasvaMediaRaises(item) ==
    LET media == GetOr(item, Key["Media"], Dict(<<>>))
        images == GetOr(media, Key["Images"], List(<<>>))
        swatch == GetOr(media, Key["Swatch"], EmptyStr)
    IN  /\ IsDict(media)
        /\ \/ /\ IsList(images)
              /\ \E i \in 1..Len(images.items) :
                    /\ IsDict(images.items[i])
                    /\ Truthy(GetOr(images.items[i], Key["Name"], EmptyStr))
                    /\ ~IsStr(GetOr(images.items[i], Key["Name"], EmptyStr))
           \/ Truthy(swatch) /\ ~IsStr(swatch)

\* TasvaScraper._extract_product_info, "Media (Images)": the fields set from
\* item['Media'], in the order they are set
TasvaMediaInfo(item) ==
    LET media == GetOr(item, Key["Media"], Dict(<<>>))
        images == GetOr(media, Key["Images"], List(<<>>))
        named == SelectSeq(images.items,
                           LAMBDA img : IsDict(img) /\ Truthy(GetOr(img, Key["Name"], EmptyStr)))
        image_names == [i \in 1..Len(named) |-> Get(named[i], Key["Name"]).s]
        image_urls == [i \in 1..Len(named) |-> UrlPrefix \o image_names[i] \o UrlSuffix]
        swatch == GetOr(media, Key["Swatch"], EmptyStr)
        swatch_clean == Replace(Replace(swatch.s, <<".", "j", "p", "g">>), <<".", "j", "p", "e", "g">>)
        none == << <<Key["ImageURLs"], EmptyStr>>,
                   <<Key["ImageURLs_JSON"], Str(<<"[", "]">>)>>,
                   <<Key["PrimaryImageURL"], EmptyStr>> >>
    IN  IF IsDict(media)
        THEN (IF IsList(images)
              THEN << <<Key["Images"], Str(JoinWith(<<",", " ">>, image_names))>>,
                      <<Key["Images_JSON"], Str(JsonDumps(images))>>,
                      <<Key["ImageURLs"], Str(JoinWith(<<",", " ">>, image_urls))>>,
                      <<Key["ImageURLs_JSON"],
                        Str(IF image_urls # <<>>
                            THEN JsonDumps(List([i \in 1..Len(image_urls) |-> Str(image_urls[i])]))
                            ELSE <<"[", "]">>)>>,
                      <<Key["PrimaryImageURL"],
                        IF image_urls # <<>> THEN Str(image_urls[1]) ELSE EmptyStr>> >>
              ELSE none)
             \o << <<Key["Swatch"], swatch>>,
                   <<Key["SwatchExtension"], GetOr(media, Key["SwatchExtension"], EmptyStr)>>,
                   <<Key["SwatchImageURL"],
                     IF Truthy(swatch) THEN Str(UrlPrefix \o swatch_clean \o UrlSuffix)
                     ELSE EmptyStr>> >>
        ELSE << <<Key["Images_JSON"],
                  IF Truthy(media) THEN Str(JsonDumps(media)) ELSE EmptyStr>> >>
             \o none \o << <<Key["SwatchImageURL"], EmptyStr>> >>

\* the record _extract_product_info builds: the identity and basic fields and the
\* Media fields
TasvaRecord(item) == Dict(TasvaExtractInfo(item).kv \o TasvaMediaInfo(item))

\* the column name of a key
ColumnOf(key) == CHOOSE c \in DOMAIN Key : Key[c] = key

\* the file save_to_csv writes for the records of the items, as csv.DictReader reads it:
\* the header, and every row a mapping from the column names to the cells
TasvaCsvFile(items) ==
    LET products == RemoveDuplicates("tasva", [i \in 1..Len(items) |-> TasvaRecord(items[i])])
        header == OrderedFieldnames("tasva", products)
    IN  CsvContent([j \in 1..Len(header) |-> ColumnOf(header[j])],
                   [i \in 1..Len(products) |->
                       [c \in {ColumnOf(key) : key \in AllKeys(products)} |->
                           CsvCell(products[i], Key[c])]])

\* an image entry of Media.Images with the given Name
Image(name) == Dict(<< <<Key["Name"], name>> >>)

\* the items of the Tasva API: without Media; with two named images and a swatch; with
\* a Name that has a leading blank; with an empty Name; with Images that is no list;
\* with a Media that is a list; with a Name that is a number
TasvaMediaItems ==
    {Dict(<< <<Key["Name"], Str(<<"n">>)>> >>),
     Dict(<< <<Key["Media"],
               Dict(<< <<Key["Images"], List(<<Image(Str(<<"a", "1">>)), Image(Str(<<"b", "2">>))>>)>>,
                       <<Key["Swatch"], Str(<<"s", "1", ".", "j", "p", "g">>)>> >>)>> >>),
     Dict(<< <<Key["Media"],
               Dict(<< <<Key["Images"], List(<<Image(Str(<<" ", "a", "1">>))>>)>> >>)>> >>),
     Dict(<< <<Key["Media"],
               Dict(<< <<Key["Images"], List(<<Image(EmptyStr)>>)>> >>)>> >>),
     Dict(<< <<Key["Media"],
               Dict(<< <<Key["Images"], None>>, <<Key["Swatch"], Str(<<"s", "1">>)>> >>)>> >>),
     Dict(<< <<Key["Media"], List(<<Image(Str(<<"m">>))>>)>> >>),
     Dict(<< <<Key["Media"], Dict(<< <<Key["Images"], List(<<Image(Num(7))>>)>> >>)>> >>)}

\* the files the Tasva scraper writes for up to MaxRows of these items (an item on
\* which _extract_product_info raises gives no record)
TasvaCsvFiles ==
    {TasvaCsvFile(items) :
        items \in SeqsUpTo({item \in TasvaMediaItems : ~TasvaMediaRaises(item)}, MaxRows) \ {<<>>}}

\* the cells of the rows of the input file
ImagesCells == {<<>>, <<" ", ",">>, <<"a", "1">>, <<" ", "a", "1", " ", ",", ",", "b", "2">>}
ImagesJsonCells ==
    {<<>>, Garbage,
     JsonDumps(List(<<Dict(<< <<Key["Name"], Str(<<"j", "1">>)>> >>), Num(7)>>))}
SwatchCells == {<<>>, <<"s", "1", ".", "j", "p", "g">>}
InputFiles ==
    {Missing, EmptyFile}
        \cup {CsvContent(<<"Images", "Images_JSON", "Swatch">>, rows) :
                 rows \in SeqsUpTo([Images : ImagesCells, Images_JSON : ImagesJsonCells,
                                    Swatch : SwatchCells], MaxRows)}
        \cup {CsvContent(<<"Images_JSON">>, rows) :
                 rows \in SeqsUpTo([Images_JSON : ImagesJsonCells], MaxRows)}
        \cup TasvaCsvFiles

ShopifySetupStep ==
    /\ site = "shopify" /\ out.pc = "main"
    /\ out' = ShopifySetup(out, arg.argv, arg.ping)
    /\ UNCHANGED <<mvars, arg>>

ParseSitemapIndexStep ==
    /\ site = "shopify" /\ out.pc = "index"
    /\ \E reply \in IndexReplies : out' = ParseSitemapIndex(out, reply)
    /\ UNCHANGED <<mvars, arg>>

ParseProductSitemapStep ==
    /\ site = "shopify" /\ out.pc = "sitemaps"
    /\ \E reply \in SitemapReplies(out.product_sitemaps[out.si]) :
          out' = ParseProductSitemap(out, reply)
    /\ UNCHANGED <<mvars, arg>>

FetchProductStep ==
    /\ site = "shopify" /\ out.pc = "products"
    /\ \E reply \in ProductReplies(out.all_product_urls[out.ui]) :
          out' = FetchProduct(out, reply)
    /\ UNCHANGED <<mvars, arg>>

SaveProductsStep ==
    /\ site = "shopify" /\ out.pc = "save"
    /\ \E raises \in BOOLEAN : out' = SaveProducts(out, raises)
    /\ UNCHANGED <<mvars, arg>>

ImagesSetupStep ==
    /\ site = "add_image_urls" /\ out.pc = "main"
    /\ out' = ImagesSetup(out, arg.argv)
    /\ UNCHANGED <<mvars, arg>>

ProcessRowStep ==
    /\ site = "add_image_urls" /\ out.pc = "rows"
    /\ out' = ProcessRow(out)
    /\ UNCHANGED <<mvars, arg>>

NextTools ==
    \/ ShopifySetupStep
    \/ ParseSitemapIndexStep
    \/ ParseProductSitemapStep
    \/ FetchProductStep
    \/ SaveProductsStep
    \/ ImagesSetupStep
    \/ ProcessRowStep

InitTools ==
    /\ InitCall
    /\ site \in Tools
    /\ arg \in IF site = "shopify"
               THEN [argv : {"none", "bad", "url"},
                     ping : {"ok", "ConnectionFailure", "OperationFailure"}]
               ELSE [argv : {"none", "file"}, input : InputFiles]
    /\ out = IF site = "shopify" THEN ShopifyStart(<<>>) ELSE ImagesStart(arg.input)

SpecTools == InitTools /\ [][NextTools]_vars

----------------------------------------------------------------------------
(* Fatal set-up errors, fetch errors and diagnostics of the two tools       *)
(* (SpecTools)                                                              *)

\* C14: when the ping of the store fails in the Shopify constructor the process exits
\* with code 1 and no HTTP fetch and no store operation is ever issued; when the input
\* file of add_image_urls is missing it exits with code 1 and no output file exists.
C14_FatalSetupAborts ==
    /\ (site = "shopify" /\ arg.argv = "url" /\ arg.ping # "ok") =>
          /\ out.pc \in {"main", "exit"}
          /\ out.pc = "exit" => out.exit_code = Num(1)
          /\ out.gets = 0
          /\ out.mongo = ShopifyStart(<<>>).mongo
    /\ (site = "add_image_urls" /\ arg.argv = "file" /\ arg.input = Missing) =>
          /\ out.pc \in {"main", "exit"}
          /\ out.pc = "exit" => out.exit_code = Num(1)
          /\ out.output = Missing
          /\ out.rows_processed = 0

\* the store could not be reached: the constructor printed the failure and the
\* process has exited with code 1 before any fetch
C14_Witness ==
    /\ site = "shopify"
    /\ arg.ping = "ConnectionFailure"
    /\ out.pc = "exit"
    /\ out.exit_code = Num(1)
    /\ out.log = <<"Failed to connect to MongoDB">>
    /\ out.gets = 0

\* the step is a fetch of the given kind that failed (transport error or malformed body)
FailedFetch(kind) ==
    /\ site = "shopify"
    /\ out'.gets = out.gets + 1
    /\ out'.last.fetch = kind
    /\ out'.last.error # "ok"

\* the failed fetch was logged and counted as an empty result, and the run goes on: it
\* does not exit with an error, and it does not end while sitemaps or products remain
LoggedEmptyContinues ==
    /\ Len(out'.log) > Len(out.log)
    /\ out'.product_sitemaps = out.product_sitemaps
    /\ out'.all_product_urls = out.all_product_urls
    /\ out'.products = out.products
    /\ out'.exit_code # Num(1)
    /\ (out.pc = "sitemaps" /\ out.si < Len(out.product_sitemaps)) =>
          (out'.pc = "sitemaps" /\ out'.si = out.si + 1)
    /\ (out.pc = "products" /\ out.ui < Len(out.all_product_urls)) =>
          (out'.pc = "products" /\ out'.ui = out.ui + 1)

\* C15 as stated: a transport error or a malformed body on any fetch of the Shopify
\* scraper (sitemap index, product sitemap, product JSON) is logged and treated as an
\* empty result, and the run continues instead of aborting.
C15_AnyFetchErrorContinues ==
    [][(FailedFetch("index") \/ FailedFetch("sitemap") \/ FailedFetch("product"))
          => LoggedEmptyContinues]_vars

\* C15 (amended): a transport error or a malformed body on the fetch of a product
\* sitemap or of a product JSON is logged and treated as an empty result, and the run
\* continues with the remaining sitemaps and products.  On the fetch of the sitemap
\* index it is logged and raised again: the run aborts with exit code 1, without any
\* further fetch and without a store operation.
C15_IndexAbortsOthersContinue ==
    [][/\ (FailedFetch("sitemap") \/ FailedFetch("product")) => LoggedEmptyContinues
       /\ FailedFetch("index") =>
             /\ Len(out'.log) > Len(out.log)
             /\ out'.pc = "exit"
             /\ out'.exit_code = Num(1)
             /\ out'.mongo = out.mongo]_vars

\* the first product sitemap was malformed, the second gave a product URL, the fetch of
\* the product JSON succeeded, and the run ended with code 0
C15_Witness ==
    /\ site = "shopify"
    /\ out.pc = "exit"
    /\ out.exit_code = Num(0)
    /\ out.log = <<"Error parsing XML">>
    /\ Len(out.product_sitemaps) = 2
    /\ Len(out.all_product_urls) = 1
    /\ out.mongo.saved_count = 1

\* the exceptions caught so far by the handlers of a run, and the diagnostics printed
CaughtSoFar(st) == st.caught + (IF site = "shopify" THEN st.mongo.caught ELSE 0)
LoggedSoFar(st) == Len(st.log) + (IF site = "shopify" THEN Len(st.mongo.log) ELSE 0)

\* C16 as stated: every error a handler catches produces a logged diagnostic before
\* execution continues.
C16_EveryCaughtErrorLogged ==
    [][LoggedSoFar(out') - LoggedSoFar(out) >= CaughtSoFar(out') - CaughtSoFar(out)]_vars

\* the non-empty entries of a comma-separated list, trimmed, in order
Identifiers(cell) ==
    LET kept == SelectSeq(Split(cell, ","), LAMBDA e : StrStrip(e) # <<>>)
    IN  [i \in 1..Len(kept) |-> StrStrip(kept[i])]

\* the row written for the last input row, and the URLs its ImageURLs cell lists
WrittenRow == out.output.rows[Len(out.output.rows)]
WrittenUrls ==
    IF WrittenRow["ImageURLs"] = <<>> THEN <<>>
    ELSE LET listed == Split(WrittenRow["ImageURLs"], ",")
         IN  [i \in 1..Len(listed) |-> LStrip(listed[i])]

\* the Images_JSON cell of the row names no image
NoJsonImage(row) ==
    \/ "Images_JSON" \notin DOMAIN row
    \/ ~JsonLoads(row["Images_JSON"]).ok
    \/ ~IsList(JsonLoads(row["Images_JSON"]).v)
    \/ \A i \in 1..Len(JsonLoads(row["Images_JSON"]).v.items) :
          ~IsDict(JsonLoads(row["Images_JSON"]).v.items[i])

----------------------------------------------------------------------------
(* The Tasva scenario: one page of two hits with the same ProductID (Spec)  *)

ScenarioReply == Tasva2(Ok200(ScenarioPage), NoReply)

\* the last query received the scenario page on its first fetch
ScenarioFirstFetch == site = "tasva" /\ lastReply = ScenarioReply /\ Len(reqs) = 1

\* the records with ProductID A1, and the Name of a record
IsA1(product) == HasKey(product, Key["ProductID"]) /\ Get(product, Key["ProductID"]) = Str(<<"A", "1">>)
NameOf(product) == Get(product, Key["Name"])

\* C17: when a Tasva query (limit 2, or any limit) receives on its first fetch the page with
\* total = 2 and two hits of ProductID A1 (names X and X-dup), pagination stops after
\* exactly that one fetch, the query returns both hits in order, and the run writes
\* exactly one record of ProductID A1, the first occurrence (Name X).
C17_ScenarioOneRecordOneFetch ==
    ScenarioFirstFetch =>
        /\ ~inQuery
        /\ lastResult.outcome = "complete"
        /\ lastResult.fetches = 1
        /\ reqs = <<0>>
        /\ Len(lastResult.products) = 2
        /\ \A i \in 1..2 : IsA1(lastResult.products[i])
        /\ NameOf(lastResult.products[1]) = Str(<<"X">>)
        /\ NameOf(lastResult.products[2]) = Str(<<"X", "-", "d", "u", "p">>)
        /\ (pc = "saved") =>
              /\ csv.written
              /\ Len(SelectSeq(csv.rows, IsA1)) = 1
              /\ NameOf(SelectSeq(csv.rows, IsA1)[1]) = Str(<<"X">>)

\* a run whose only productive query received the scenario page: two records
\* collected, one row written
C17_Witness ==
    /\ ScenarioFirstFetch
    /\ limit = 2
    /\ pc = "saved"
    /\ Len(collected) = 2
    /\ Len(csv.rows) = 1
    /\ IsA1(csv.rows[1])
    /\ NameOf(csv.rows[1]) = Str(<<"X">>)

----------------------------------------------------------------------------
(* The continuation decision of Snitch scrape_query (SpecSignals)           *)

\* the page the last iteration received, as search returned it, and its data object
LastResponseData == SnitchSearch(lastReply.first)
LastDataObj == SnitchDataObj(LastResponseData)

\* the last page carries hasMore = false in data and no pagination field at top level
ExplicitNoMore ==
    /\ IsDict(LastDataObj)
    /\ HasKey(LastDataObj, Key["hasMore"])
    /\ Get(LastDataObj, Key["hasMore"]) = Bool(FALSE)
    /\ Keys(LastResponseData) = {Key["data"]}

\* C19 as stated: a decision of a higher-priority signal is never overridden; while
\* a Snitch query continues, the records collected are fewer than the total count in
\* force, and with no total count the page did not say hasMore = false.
C19_PriorityNeverOverridden ==
    (site = "snitch" /\ inQuery) =>
        /\ ~IsNone(total_count) => Len(all_products) < IntOf(total_count)
        /\ IsNone(total_count) => ~ExplicitNoMore

\* the fields in data never override the total count: a query that continues with the
\* total count reached was told to by a top-level field
C19_DataFieldsDoNotOverride ==
    (site = "snitch" /\ inQuery /\ ~IsNone(total_count) /\ Len(all_products) >= IntOf(total_count)) =>
        Keys(LastResponseData) # {Key["data"]}

----------------------------------------------------------------------------
(* A page without records ends the query (SpecSignals)                      *)

\* extract_products returned no record for the reply (search failures included)
ZeroRecords(reply) ==
    LET ex == IF site = "snitch" THEN SnitchExtractProducts(Search(reply))
              ELSE TasvaExtractProducts(Search(reply))
    IN  ~ex.raised /\ ex.products = <<>>

\* the records the running query has accumulated
Accumulated == IF inQuery THEN all_products ELSE <<>>

\* C20: an iteration whose page yields zero extracted records ends the query at once,
\* whatever total count was seen before and whatever the page signals: the query
\* returns the records accumulated before that page, unchanged, main appends them and
\* moves on to the next query.
C20_EmptyPageStops ==
    [][(pc = "loop" /\ ZeroRecords(lastReply')) =>
          /\ ~inQuery'
          /\ qi' = qi + 1
          /\ lastResult'.outcome = "empty"
          /\ lastResult'.products = Accumulated
          /\ collected' = collected \o Accumulated]_vars

\* a Tasva query that continued on a total count out of reach, then received a page
\* without hits that repeats that total: it ended after two fetches with its one record
C20_Witness ==
    /\ site = "tasva"
    /\ ~inQuery
    /\ lastReply \in {Tasva2(Ok200(p), NoReply) : p \in TasvaDryPages}
    /\ ZeroRecords(lastReply)
    /\ lastResult.outcome = "empty"
    /\ lastResult.fetches = 2
    /\ Len(lastResult.products) = 1
    /\ collected # <<>>

----------------------------------------------------------------------------
(* The full-page heuristic (SpecSignals)                                    *)

\* what extract_products returned for the reply
Extracted(reply) ==
    IF site = "snitch" THEN SnitchExtractProducts(Search(reply))
    ELSE TasvaExtractProducts(Search(reply))

\* the records of the page of a reply
PageRecords(reply) == Extracted(reply).products

\* a non-empty page without a total count and without a hasMore, nextPage or
\* totalPages field
PlainPage(reply) ==
    /\ ~Extracted(reply).raised
    /\ PageRecords(reply) # <<>>
    /\ IF site = "snitch"
       THEN /\ IsDict(Search(reply))
            /\ Keys(Search(reply)) = {Key["data"]}
            /\ IsDict(SnitchDataObj(Search(reply)))
            /\ Keys(SnitchDataObj(Search(reply))) = {Key["products"]}
       ELSE /\ IsDict(TasvaProductsObj(Search(reply)))
            /\ Keys(TasvaProductsObj(Search(reply))) = {Key["hits"]}

----------------------------------------------------------------------------
(* The pages and offsets a query requests (SpecTotal)                       *)

\* C22: the k-th fetch of every query, the first query or a later one, is issued with
\* page = k in Snitch and with offset = (k - 1) * limit and pageNo = k in Tasva; so no
\* page or offset is skipped or requested by two fetches of one query.
C22_AdditiveFreshPerQuery ==
    \A k \in 1..Len(reqs) :
        IF site = "snitch" THEN reqs[k] = k
        ELSE /\ reqs[k] = (k - 1) * limit
             /\ \A query \in SearchQueries : TasvaPayload(query, reqs[k], limit).pageNo = k

\* the second Tasva query, with limit 2, has issued its third fetch at offset 4
C22_Witness ==
    /\ site = "tasva"
    /\ qi = 2
    /\ inQuery
    /\ limit = 2
    /\ reqs = <<0, 2, 4>>
    /\ offset = 6

----------------------------------------------------------------------------
(* The conversion of a field value by its type (SpecFlatten)                *)

\* a sequence all of whose elements are null, booleans, numbers or strings
OnlyScalars(v) == IsList(v) /\ \A i \in 1..Len(v.items) : IsScalarOrNone(v.items[i])

\* the conversion of null, scalars, mappings and sequences with a nested element
ConvertedByType(v, w) ==
    /\ IsScalarOrNone(v) => w = v
    /\ IsDict(v) => w = Str(JsonDumps(v))
    /\ (IsList(v) /\ ~OnlyScalars(v)) => w = Str(JsonDumps(v))

\* C23 as stated: every field value is converted by its type alone, and every sequence
\* of only scalars, the empty sequence included, becomes its elements joined by ', '.
C23_ByTypeJoinEvery ==
    Flattened =>
        \A i \in 1..Len(arg.kv) :
            /\ ConvertedByType(arg.kv[i][2], out.product.kv[i][2])
            /\ OnlyScalars(arg.kv[i][2]) =>
                  out.product.kv[i][2] = Str(JoinScalars(arg.kv[i][2].items))

\* C23 amended: every field value is converted by its type alone; a non-empty sequence
\* of only scalars becomes its elements joined by ', ' (a null element as the empty
\* text), and the empty sequence becomes the text [].
C23_ByTypeEmptyIsBrackets ==
    Flattened =>
        \A i \in 1..Len(arg.kv) :
            /\ ConvertedByType(arg.kv[i][2], out.product.kv[i][2])
            /\ (OnlyScalars(arg.kv[i][2]) /\ arg.kv[i][2].items # <<>>) =>
                  out.product.kv[i][2] = Str(JoinScalars(arg.kv[i][2].items))
            /\ arg.kv[i][2] = List(<<>>) => out.product.kv[i][2] = Str(<<"[", "]">>)

\* a record with an empty sequence and a sequence of two strings has been flattened
C23_Witness ==
    /\ Flattened
    /\ arg = Dict(<< <<Key["title"], List(<<>>)>>,
                     <<Key["tags"], List(<<Str(<<"a">>), Str(<<"b">>)>>)>> >>)
    /\ out.product.kv[1][2] = Str(<<"[", "]">>)
    /\ out.product.kv[2][2] = Str(<<"a", ",", " ", "b">>)

----------------------------------------------------------------------------
(* SnitchScraper._find_products_recursive on one payload (SpecFind)         *)

RECURSIVE Wrap(_, _)
\* v below n nested mappings
Wrap(v, n) == IF n = 0 THEN v ELSE Dict(<< <<Key["meta"], Wrap(v, n - 1)>> >>)

\* what a payload holds under one key: scalars, sequences of records, sequences
\* without records, and these below mappings (plain and skipped keys), inside
\* sequences, and below as many mappings as the depth limit, one more and two more
FindLeaves == {Num(1), Recs(0, 1), Recs(10, 2), List(<<>>), List(<<Num(1)>>),
               List(<<Dict(<< <<Key["meta"], Num(1)>> >>)>>)}
FindValues ==
    FindLeaves
    \cup {Dict(<< <<k, v>> >>) : k \in {Key["meta"], Key["children"], Key["key"]},
                                 v \in {Recs(20, 1), Num(1)}}
    \cup {List(<<Recs(30, 1)>>), List(<<Dict(<< <<Key["meta"], Recs(40, 1)>> >>)>>)}
    \cup {Wrap(Recs(50, 1), n) : n \in {RecursiveDepthLimit - 1, RecursiveDepthLimit, RecursiveDepthLimit + 1}}

FindPayloads ==
    {Dict(Entry(Key["tags"], a) \o Entry(Key["value"], b) \o Entry(Key["meta"], c)) :
        a \in FindValues \cup {Absent}, b \in {Absent, Recs(60, 1)}, c \in FindValues \cup {Absent}}
    \cup {Recs(0, 1), List(<<Recs(30, 1)>>), Num(1)}

\* one call of _find_products_recursive(data)
FindProductsRecursiveCall ==
    /\ pc = "call"
    /\ out = Idle
    /\ out' = [found |-> FindProductsRecursive(arg, 0)]
    /\ UNCHANGED <<mvars, arg>>

NextFind == FindProductsRecursiveCall

InitFind ==
    /\ InitCall
    /\ site = "snitch"
    /\ arg \in FindPayloads
    /\ out = Idle

SpecFind == InitFind /\ [][NextFind]_vars

RECURSIVE ListsAnywhere(_, _)
\* every sequence at nesting depth up to the limit whose first element is a mapping
\* with an indicator key, wherever it is in v, in depth-first order
ListsAnywhere(v, depth) ==
    IF depth > RecursiveDepthLimit THEN <<>>
    ELSE IF IsList(v)
         THEN (IF LooksLikeProductList(v) THEN <<v.items>> ELSE <<>>)
              \o Flat([i \in 1..Len(v.items) |-> ListsAnywhere(v.items[i], depth + 1)])
    ELSE IF IsDict(v)
         THEN Flat([i \in 1..Len(v.kv) |-> ListsAnywhere(v.kv[i][2], depth + 1)])
    ELSE <<>>

RECURSIVE ListsBelowMappings(_, _)
\* the same sequences when only the values of mappings are entered, the mappings lie
\* at depth up to the limit, and the values under the skipped keys are left out
ListsBelowMappings(v, depth) ==
    IF IsList(v) THEN (IF LooksLikeProductList(v) THEN <<v.items>> ELSE <<>>)
    ELSE IF IsDict(v) /\ depth <= RecursiveDepthLimit
         THEN Flat([i \in 1..Len(v.kv) |->
                      IF v.kv[i][1] \in SkipKeys THEN <<>>
                      ELSE ListsBelowMappings(v.kv[i][2], depth + 1)])
    ELSE <<>>

\* the first of a sequence of sequences, [] when there is none
FirstOr(lists) == IF lists = <<>> THEN <<>> ELSE lists[1]

\* C24 as stated: the search returns the first sequence of records (first element a
\* mapping with an indicator key) that exists anywhere in the payload within nesting
\* depth 10, in depth-first key order, and the empty sequence only when there is none.
C24_FindsAnywhere ==
    out # Idle =>
        /\ ListsAnywhere(arg, 0) # <<>> => out.found = ListsAnywhere(arg, 0)[1]
        /\ out.found = <<>> => ListsAnywhere(arg, 0) = <<>>

\* C24 amended: the search returns the first sequence of records, in depth-first key
\* order, among those that are the payload itself or the value of a key of a mapping
\* reached from the payload through values of mappings only, each mapping at depth at
\* most 10 and no key on the way being one of the skipped keys; it returns the empty
\* sequence when there is none, so a sequence of records under a skipped key or
\* inside another sequence is not found.
C24_FindsBelowMappings ==
    out # Idle => out.found = FirstOr(ListsBelowMappings(arg, 0))

\* the records under 'meta' were returned although 'value' holds records as well,
\* 'value' being a skipped key
C24_Witness ==
    /\ out # Idle
    /\ arg = Dict(<< <<Key["value"], Recs(60, 1)>>,
                     <<Key["meta"], Dict(<< <<Key["meta"], Recs(20, 1)>> >>)>> >>)
    /\ out.found = Recs(20, 1).items

----------------------------------------------------------------------------
(* Where the duplicates are removed (Spec)                                  *)

\* the total count the page of a reply carries (None when it carries none); for
\* Snitch the pages without top-level pagination fields are considered
TotalCarried(reply) ==
    IF site = "tasva"
    THEN IF IsDict(TasvaProductsObj(Search(reply)))
         THEN GetOr(TasvaProductsObj(Search(reply)), Key["total"], None) ELSE None
    ELSE IF IsDict(Search(reply)) /\ Keys(Search(reply)) = {Key["data"]}
            /\ IsDict(SnitchDataObj(Search(reply)))
         THEN GetOr(SnitchDataObj(Search(reply)), Key["total_count"], None) ELSE None

\* C25: scrape_query never removes a duplicate: after every page its list is the list
\* before followed by the records of the page, what it returns is that plain
\* concatenation and main appends it to its own list in query order; the continuation
\* test compares the raw length of the list with the total; the duplicates are removed
\* once, by save_to_csv, which keeps for every key the earliest record of main's list.
C25_DedupOnlyInSave ==
    [][/\ (pc = "loop" /\ ~Extracted(lastReply').raised) =>
            /\ inQuery' => all_products' = Accumulated \o PageRecords(lastReply')
            /\ (~inQuery' /\ lastResult'.outcome # "raise") =>
                  /\ lastResult'.products = Accumulated \o PageRecords(lastReply')
                  /\ collected' = collected \o Accumulated \o PageRecords(lastReply')
            /\ (IsNum(TotalCarried(lastReply')) /\ PageRecords(lastReply') # <<>>) =>
                  (inQuery' <=> Len(Accumulated) + Len(PageRecords(lastReply'))
                                   < IntOf(TotalCarried(lastReply')))
       /\ (pc = "end") =>
            /\ collected' = collected
            /\ csv'.written =>
                  csv'.rows = SubsequenceAt(collected, FirstOccurrences(site, collected))]_vars

\* both Tasva queries received the page with two hits of one ProductID and total 2:
\* each stopped on the raw count of 2, main collected four records, one row was written
C25_Witness ==
    /\ site = "tasva"
    /\ pc = "saved"
    /\ lastReply = ScenarioReply
    /\ Len(reqs) = 1
    /\ Len(collected) = 4
    /\ Len(csv.rows) = 1
    /\ csv.rows[1] = collected[1]

----------------------------------------------------------------------------
(* When the sink is written: the three scrapers side by side (SpecSinks)    *)

\* a run of the Snitch or Tasva scraper against the unconstrained source, or a run
\* of the Shopify scraper
InitSinks == Init \/ (InitTools /\ site = "shopify")

NextSinks ==
    \/ ScrapeStep
    \/ Save
    \/ ShopifySetupStep
    \/ ParseSitemapIndexStep
    \/ ParseProductSitemapStep
    \/ FetchProductStep
    \/ SaveProductsStep

SpecSinks == InitSinks /\ [][NextSinks]_vars

\* save_to_mongodb has not touched the collection
MongoUntouched(st) == st.mongo.phase = "index" /\ st.mongo.n = 0 /\ st.mongo.store = <<>>

\* C26: the sink is written only after all fetching has ended.  Snitch and Tasva: the
\* CSV file is written by one step, taken when the loop over the queries is over, no
\* fetch follows it, and the file exists at the end exactly when a record was
\* collected.  Shopify: every step of save_to_mongodb is taken after the last product
\* URL was fetched, no GET follows, and a run that fetched no product leaves the store
\* untouched.
C26_SinkAfterAllFetching ==
    [][IF site \in Sites
       THEN /\ csv' # csv => (pc = "end" /\ qi > NumQueries /\ ~inQuery /\ csv = NoFile)
            /\ csv.written => (reqs' = reqs /\ lastReply' = lastReply)
            /\ pc' = "saved" => (csv'.written <=> collected' # <<>>)
            /\ pc' # "saved" => csv' = NoFile
       ELSE /\ out'.mongo # out.mongo =>
                  /\ out.pc = "save"
                  /\ out.ui = Len(out.all_product_urls) + 1
                  /\ out.products # <<>>
                  /\ out'.gets = out.gets
            /\ ~MongoUntouched(out) => out'.gets = out.gets
            /\ (out'.pc = "exit" /\ out'.products = <<>>) => MongoUntouched(out')]_vars

\* a Shopify run that fetched both product URLs and then stored both products
C26_Witness ==
    /\ site = "shopify"
    /\ out.pc = "exit"
    /\ Len(out.all_product_urls) = 2
    /\ out.gets = 5
    /\ Len(out.products) = 2
    /\ out.mongo.n = 2
    /\ out.mongo.store # <<>>

----------------------------------------------------------------------------
(* The counters of save_to_mongodb (SpecMongo)                              *)

\* saved_count + updated_count + error_count
CounterSum(st) == st.saved_count + st.updated_count + st.error_count

\* C27 as stated: every iteration of the loop increases exactly one of the three
\* counters and goes on to the following record, so the counters add up to the number
\* of records processed; a record without a truthy id is counted as an error and the
\* store is left as it was.
C27_OneCounterPerRecord ==
    [][out.phase = "loop" =>
          /\ out'.phase = "loop"
          /\ out'.n = out.n + 1
          /\ CounterSum(out') = CounterSum(out) + 1
          /\ CounterSum(out') = out'.n
          /\ out'.saved_count >= out.saved_count
          /\ out'.updated_count >= out.updated_count
          /\ out'.error_count >= out.error_count
          /\ ~Truthy(GetOr(arg[out.n + 1], Key["id"], None)) =>
                (out'.error_count = out.error_count + 1 /\ out'.store = out.store)]_vars

----------------------------------------------------------------------------
(* Several records with one id in a batch of save_to_mongodb (SpecMongo)   *)

\* the whole batch went through the loop and every record was upserted
BatchDone == out.phase = "loop" /\ out.n = Len(arg) /\ out.error_count = 0

IdAt(i) == GetOr(arg[i], Key["id"], None)

\* the records of the batch that have the id of record i
SameId(i) == {j \in 1..Len(arg) : IdAt(j) = IdAt(i)}

LastOf(i) == CHOOSE j \in SameId(i) : \A k \in SameId(i) : k <= j

\* the stored document with the id of record i
DocOf(i) == out.store[CHOOSE d \in WithId(out.store, IdAt(i)) : TRUE]

\* the fields that the records with the id of record i have
BatchFields(i) == UNION {Keys(arg[j]) : j \in SameId(i)}

\* the ids of the batch that the collection did not hold before the call
NewIds == {v \in {IdAt(i) : i \in 1..Len(arg)} : WithId(out.initial, v) = {}}

\* the first record of each id is counted as new when the id was absent, every other
\* record as an update
CountedFirstNew ==
    /\ out.saved_count = Cardinality(NewIds)
    /\ out.updated_count = Len(arg) - Cardinality(NewIds)

\* C28 as stated: when a batch holds several records with one id, the store ends with
\* a single document for that id, and every field the batch gave for that id carries
\* the value of the last of these records; the first is counted as new when the id
\* was absent, the later ones as updates.
C28_LastRecordWins ==
    BatchDone =>
        /\ \A i \in 1..Len(arg) :
              Cardinality(SameId(i)) > 1 =>
                 /\ Cardinality(WithId(out.store, IdAt(i))) = 1
                 /\ \A k \in BatchFields(i) :
                       /\ HasKey(arg[LastOf(i)], k)
                       /\ Get(DocOf(i), k) = Get(arg[LastOf(i)], k)
        /\ CountedFirstNew

\* C28 amended: the store ends with a single document for that id; every field of the
\* last of these records is stored with that record's value, a field that only an
\* earlier record has keeps the value of the last record that has it; the counters
\* are as stated.
C28_LastWriteWinsPerField ==
    BatchDone =>
        /\ \A i \in 1..Len(arg) :
              Cardinality(SameId(i)) > 1 =>
                 /\ Cardinality(WithId(out.store, IdAt(i))) = 1
                 /\ \A k \in Keys(arg[LastOf(i)]) :
                       /\ HasKey(DocOf(i), k)
                       /\ Get(DocOf(i), k) = Get(arg[LastOf(i)], k)
                 /\ \A k \in BatchFields(i) :
                       LET j == CHOOSE j \in SameId(i) :
                                   /\ HasKey(arg[j], k)
                                   /\ \A h \in SameId(i) : HasKey(arg[h], k) => h <= j
                       IN  Get(DocOf(i), k) = Get(arg[j], k)
        /\ CountedFirstNew

\* a batch of two different records with the id 1 was written into an empty
\* collection: one document, one record counted as new and one as an update
C28_Witness ==
    /\ BatchDone
    /\ Len(arg) >= 2
    /\ IdAt(1) = IdAt(2)
    /\ arg[1] # arg[2]
    /\ Keys(arg[1]) # Keys(arg[2])
    /\ out.initial = <<>>
    /\ Len(out.store) = 1
    /\ out.saved_count = 1
    /\ out.updated_count = Len(arg) - 1

----------------------------------------------------------------------------
(* The output file of process_csv, and the image URLs of the Tasva scraper *)
(* against those of process_csv (SpecTools)                                *)

\* process_csv has ended without an error on an input file that has a header
ProcessCsvDone ==
    /\ site = "add_image_urls"
    /\ arg.argv = "file"
    /\ arg.input.t = "csv"
    /\ out.pc = "exit"
    /\ out.exit_code = Num(0)

\* header is fieldnames with the four new columns inserted after position k
InsertedAt(fieldnames, header, k) ==
    header = SubSeq(fieldnames, 1, k) \o NewColumns \o SubSeq(fieldnames, k + 1, Len(fieldnames))

\* no column name occurs twice in header
NoColumnTwice(header) == \A i, j \in 1..Len(header) : header[i] = header[j] => i = j

\* the row written as a line of the output file: csv.DictWriter takes the cell of
\* every column of the header from the row
WrittenLine(header, row) == [j \in 1..Len(header) |-> Cell(row, header[j])]

\* C29 as stated: process_csv writes one output row per input row in the same order;
\* the output header is the input header with ImageURLs, ImageURLs_JSON,
\* PrimaryImageURL, SwatchImageURL inserted immediately after the Images column
\* (appended when there is no Images column); every column name occurs exactly once
\* and every input column keeps its input value.
C29_HeaderAndRows ==
    ProcessCsvDone =>
        LET fieldnames == arg.input.fieldnames
            header == out.output.fieldnames
        IN  /\ Len(out.output.rows) = Len(arg.input.rows)
            /\ IF \E k \in 1..Len(fieldnames) : fieldnames[k] = "Images"
               THEN \E k \in 1..Len(fieldnames) :
                       fieldnames[k] = "Images" /\ InsertedAt(fieldnames, header, k)
               ELSE InsertedAt(fieldnames, header, Len(fieldnames))
            /\ NoColumnTwice(header)
            /\ \A i \in 1..Len(arg.input.rows) :
                  \A j \in 1..Len(header) :
                     header[j] \in Range(fieldnames) =>
                        WrittenLine(header, out.output.rows[i])[j] = arg.input.rows[i][header[j]]

\* C30 as stated: for every record the Tasva scraper wrote, the ImageURLs,
\* ImageURLs_JSON, PrimaryImageURL and SwatchImageURL that process_csv computes from
\* the Images, Images_JSON and Swatch columns of the record are equal to the values
\* _extract_product_info computed from Media.Images and Media.Swatch, which are the
\* values of these four columns in the scraper's file.
C30_DerivationsAgree ==
    (site = "add_image_urls" /\ arg.input \in TasvaCsvFiles /\ out.output.t = "csv") =>
        \A i \in 1..Len(out.output.rows) :
           \A c \in Range(NewColumns) :
              out.output.rows[i][c] = arg.input.rows[i][c]

====
